---- MODULE Spec2Model ----
(***************************************************************************)
(* Exoplanet-Intelligence: the browser client's prediction pipeline.       *)
(*                                                                         *)
(*   validation utilities   src/docs/deployment_guide.md  (lines 241-345)  *)
(*   InputForm              src/unnamed/part_002          (lines 135-277)  *)
(*   Home                   src/unnamed/part_003                           *)
(*   API client             src/frontend/src/services/api.js (lines 1-60)  *)
(*                                                                         *)
(* JavaScript values are records tagged by their type.  A string is a      *)
(* sequence of tokens: numeric text is spelt character by character        *)
(* (<<"0", ".", "1">>), a fixed message text is one token.                 *)
(***************************************************************************)
EXTENDS Integers, Sequences, FiniteSets

(***************************************************************************)
(* JavaScript values                                                       *)
(***************************************************************************)
Undefined == [t |-> "undefined"]
Null == [t |-> "null"]
Str(s) == [t |-> "string", s |-> s]
EmptyStr == Str(<< >>)
NaN == [t |-> "number", k |-> "NaN", m |-> 0, d |-> 0]
PosInf == [t |-> "number", k |-> "Infinity", m |-> 1, d |-> 0]
NegInf == [t |-> "number", k |-> "Infinity", m |-> -1, d |-> 0]

RECURSIVE Pow10(_)
Pow10(n) == IF n <= 0 THEN 1 ELSE 10 * Pow10(n - 1)

\* The finite number m / 10^d, in lowest terms of the decimal scale.
RECURSIVE Num(_, _)
Num(m, d) ==
  IF d > 0 /\ m % 10 = 0 THEN Num(m \div 10, d - 1)
  ELSE [t |-> "number", k |-> "finite", m |-> m, d |-> d]

\* An object literal: its own properties in insertion order.
Obj(entries) == [t |-> "object", e |-> entries]

RECURSIVE IndexOfKey(_, _, _)
IndexOfKey(entries, key, i) ==
  IF i > Len(entries) THEN 0
  ELSE IF entries[i].k = key THEN i
  ELSE IndexOfKey(entries, key, i + 1)

\* obj[key]
Get(obj, key) ==
  LET i == IndexOfKey(obj.e, key, 1)
  IN IF i = 0 THEN Undefined ELSE obj.e[i].v

\* { ...obj, [key]: value }
Put(obj, key, value) ==
  LET i == IndexOfKey(obj.e, key, 1)
  IN IF i = 0 THEN Obj(Append(obj.e, [k |-> key, v |-> value]))
     ELSE Obj([obj.e EXCEPT ![i] = [k |-> key, v |-> value]])

\* Object.keys(obj)
ObjectKeys(obj) == [i \in 1..Len(obj.e) |-> obj.e[i].k]

\* ToBoolean: what `if (x)`, `x || y` and `x ? a : b` test.
Truthy(v) ==
  CASE v.t = "undefined" -> FALSE
    [] v.t = "null" -> FALSE
    [] v.t = "string" -> Len(v.s) > 0
    [] v.t = "number" -> v.k = "Infinity" \/ (v.k = "finite" /\ v.m # 0)
    [] v.t = "boolean" -> v.b
    [] OTHER -> TRUE

\* a || b
Or(a, b) == IF Truthy(a) THEN a ELSE b

(***************************************************************************)
(* Numbers: comparison, Number::toString, parseFloat, isNaN                *)
(***************************************************************************)
\* a < b on numbers (false whenever either is NaN).
Less(a, b) ==
  IF a.k = "NaN" \/ b.k = "NaN" THEN FALSE
  ELSE IF a.k = "Infinity" THEN a.m < 0 /\ ~(b.k = "Infinity" /\ b.m < 0)
  ELSE IF b.k = "Infinity" THEN b.m > 0
  ELSE a.m * Pow10(b.d) < b.m * Pow10(a.d)

Digits == <<"0", "1", "2", "3", "4", "5", "6", "7", "8", "9">>
IsDigit(c) == \E i \in 1..10 : Digits[i] = c
DigitVal(c) == (CHOOSE i \in 1..10 : Digits[i] = c) - 1

RECURSIVE NatToChars(_)
NatToChars(n) ==
  IF n < 10 THEN <<Digits[n + 1]>>
  ELSE Append(NatToChars(n \div 10), Digits[(n % 10) + 1])

RECURSIVE PadZeros(_, _)
PadZeros(chars, width) ==
  IF Len(chars) >= width THEN chars ELSE PadZeros(<<"0">> \o chars, width)

\* Number::toString(x), radix 10, for the magnitudes that print without an
\* exponent (1e-7 <= |x| < 1e21).
NumberToString(x) ==
  IF x.k = "NaN" THEN <<"N", "a", "N">>
  ELSE IF x.k = "Infinity"
    THEN (IF x.m < 0 THEN <<"-">> ELSE << >>) \o <<"I", "n", "f", "i", "n", "i", "t", "y">>
  ELSE LET abs == IF x.m < 0 THEN -x.m ELSE x.m
           sign == IF x.m < 0 THEN <<"-">> ELSE << >>
           int == NatToChars(abs \div Pow10(x.d))
           frac == PadZeros(NatToChars(abs % Pow10(x.d)), x.d)
       IN IF x.d = 0 THEN sign \o int ELSE sign \o int \o <<".">> \o frac

\* JsToString(v): what parseFloat and the Error constructor apply to an argument.
JsToString(v) ==
  CASE v.t = "string" -> v.s
    [] v.t = "number" -> NumberToString(v)
    [] v.t = "undefined" -> <<"undefined">>
    [] v.t = "null" -> <<"null">>
    [] OTHER -> <<"[object Object]">>

CharAt(s, i) == IF i >= 1 /\ i <= Len(s) THEN s[i] ELSE ""

RECURSIVE SkipWhite(_, _)
SkipWhite(s, i) == IF CharAt(s, i) = " " THEN SkipWhite(s, i + 1) ELSE i

\* The index after the run of decimal digits of s that starts at i.
RECURSIVE DigitsEnd(_, _)
DigitsEnd(s, i) == IF IsDigit(CharAt(s, i)) THEN DigitsEnd(s, i + 1) ELSE i

\* The value of the decimal digits s[i..j-1].
RECURSIVE DigitsValue(_, _, _)
DigitsValue(s, i, j) ==
  IF j <= i THEN 0 ELSE 10 * DigitsValue(s, i, j - 1) + DigitVal(s[j - 1])

StartsWith(s, i, word) ==
  /\ i + Len(word) - 1 <= Len(s)
  /\ \A j \in 1..Len(word) : s[i + j - 1] = word[j]

\* parseFloat(v): the longest prefix of the trimmed JsToString(v) that is a
\* StrDecimalLiteral, or NaN when there is none.  The stages below scan the
\* text left to right: sign, integer digits, fraction digits, exponent.
InfinityWord == <<"I", "n", "f", "i", "n", "i", "t", "y">>

\* The number (-1)^neg * mant * 10^scale.
ParsedNumber(neg, mant, scale) ==
  IF scale >= 0 THEN Num((IF neg THEN -mant ELSE mant) * Pow10(scale), 0)
  ELSE Num(IF neg THEN -mant ELSE mant, -scale)

\* The exponent part at s[p]: "e" or "E", an optional sign, at least one digit.
ExponentAt(s, p) ==
  IF CharAt(s, p) \in {"e", "E"}
    THEN IF CharAt(s, p + 1) \in {"-", "+"}
           THEN (IF CharAt(s, p + 1) = "-" THEN -1 ELSE 1)
                * DigitsValue(s, p + 2, DigitsEnd(s, p + 2))
           ELSE DigitsValue(s, p + 1, DigitsEnd(s, p + 1))
    ELSE 0

\* Integer digits s[i1..intEnd-1]; fraction digits s[intEnd+1..fracEnd-1] when
\* fracEnd > intEnd.
ParseDigits(s, neg, i1, intEnd, fracEnd) ==
  IF (intEnd - i1) + (IF fracEnd > intEnd THEN fracEnd - intEnd - 1 ELSE 0) = 0
    THEN (IF StartsWith(s, i1, InfinityWord)
            THEN (IF neg THEN NegInf ELSE PosInf)
            ELSE NaN)
    ELSE IF fracEnd > intEnd
      THEN ParsedNumber(neg,
             DigitsValue(s, i1, intEnd) * Pow10(fracEnd - intEnd - 1)
               + DigitsValue(s, intEnd + 1, fracEnd),
             ExponentAt(s, fracEnd) - (fracEnd - intEnd - 1))
      ELSE ParsedNumber(neg, DigitsValue(s, i1, intEnd), ExponentAt(s, intEnd))

ParseFraction(s, neg, i1, intEnd) ==
  ParseDigits(s, neg, i1, intEnd,
    IF CharAt(s, intEnd) = "." THEN DigitsEnd(s, intEnd + 1) ELSE intEnd)

ParseSigned(s, i0) ==
  IF CharAt(s, i0) \in {"-", "+"}
    THEN ParseFraction(s, CharAt(s, i0) = "-", i0 + 1, DigitsEnd(s, i0 + 1))
    ELSE ParseFraction(s, FALSE, i0, DigitsEnd(s, i0))

ParseText(s) == ParseSigned(s, SkipWhite(s, 1))

ParseFloat(v) == ParseText(JsToString(v))

\* isNaN(x) on a number.
IsNaN(x) == x.k = "NaN"

(***************************************************************************)
(* The form's feature schema                                               *)
(***************************************************************************)
\* A schema entry with its two bounds exchanged.
Feature_boundsSwapped(key, name, min, max, default) ==
  [key |-> key, name |-> name, min |-> max, max |-> min, default |-> default]

Feature(key, name, min, max, default) ==
  [key |-> key, name |-> name, min |-> min, max |-> max, default |-> default]

FEATURE_CONFIG == <<
  Feature("koi_prad", "Planetary Radius", Num(1, 1), Num(30, 0), Num(2, 0)),
  Feature("koi_depth", "Transit Depth", Num(0, 0), Num(10000, 0), Num(100, 0)),
  Feature("koi_period", "Orbital Period", Num(1, 1), Num(1000, 0), Num(50, 0)),
  Feature("koi_srad", "Stellar Radius", Num(1, 1), Num(10, 0), Num(1, 0)),
  Feature("koi_steff", "Stellar Temperature", Num(2500, 0), Num(10000, 0), Num(5778, 0)),
  Feature("koi_smass", "Stellar Mass", Num(1, 1), Num(5, 0), Num(1, 0)),
  Feature("koi_slogg", "Surface Gravity", Num(1, 0), Num(5, 0), Num(45, 1)),
  Feature("koi_lum", "Luminosity", Num(-3, 0), Num(5, 0), Num(0, 0)),
  Feature("koi_impact", "Impact Parameter", Num(0, 0), Num(2, 0), Num(5, 1)),
  Feature("koi_duration", "Transit Duration", Num(1, 1), Num(50, 0), Num(3, 0)),
  Feature("koi_dor", "Distance Ratio", Num(1, 0), Num(200, 0), Num(20, 0)),
  Feature("koi_model_snr", "Signal-to-Noise", Num(0, 0), Num(500, 0), Num(20, 0)),
  Feature("koi_kepmag", "Kepler Magnitude", Num(5, 0), Num(20, 0), Num(14, 0)),
  Feature("koi_score", "Disposition Score", Num(0, 0), Num(1, 0), Num(5, 1)),
  Feature("koi_qof", "Quality Flag", Num(0, 0), Num(1, 0), Num(9, 1)) >>

\* featureConfig.<name>: undefined when the entry has no such property.
Prop(featureConfig, name) ==
  IF name \in DOMAIN featureConfig THEN featureConfig[name] ELSE Undefined

\* config.find(f => f.key === key)
RECURSIVE Find(_, _, _)
Find(config, key, i) ==
  IF i > Len(config) THEN Undefined
  ELSE IF config[i].key = key THEN config[i]
  ELSE Find(config, key, i + 1)

(***************************************************************************)
(* Validation utilities                                                    *)
(***************************************************************************)
\* validateFeatureWith with the range checks written <= and >=: a value equal
\* to a bound is rejected.
validateFeatureWith_exclusive(key, value, featureConfig, numValue) ==
  IF featureConfig = Undefined
    THEN Str(<<"Unknown feature: ", key>>)
  ELSE IF value = EmptyStr \/ value = Null \/ value = Undefined
    THEN (IF Truthy(Prop(featureConfig, "required"))
            THEN Str(<<featureConfig.name, " is required">>)
            ELSE Null)
  ELSE IF IsNaN(numValue)
    THEN Str(<<featureConfig.name, " must be a number">>)
  ELSE IF ~Less(featureConfig.min, numValue)
    THEN Str(<<featureConfig.name, " must be at least ">> \o NumberToString(featureConfig.min))
  ELSE IF ~Less(numValue, featureConfig.max)
    THEN Str(<<featureConfig.name, " must be at most ">> \o NumberToString(featureConfig.max))
  ELSE Null

\* validateFeature once featureConfig and numValue are computed.
validateFeatureWith(key, value, featureConfig, numValue) ==
  IF featureConfig = Undefined
    THEN Str(<<"Unknown feature: ", key>>)
  ELSE IF value = EmptyStr \/ value = Null \/ value = Undefined
    THEN (IF Truthy(Prop(featureConfig, "required"))
            THEN Str(<<featureConfig.name, " is required">>)
            ELSE Null)
  ELSE IF IsNaN(numValue)
    THEN Str(<<featureConfig.name, " must be a number">>)
  ELSE IF Prop(featureConfig, "min") # Undefined /\ Less(numValue, featureConfig.min)
    THEN Str(<<featureConfig.name, " must be at least ">> \o NumberToString(featureConfig.min))
  ELSE IF Prop(featureConfig, "max") # Undefined /\ Less(featureConfig.max, numValue)
    THEN Str(<<featureConfig.name, " must be at most ">> \o NumberToString(featureConfig.max))
  ELSE Null

validateFeature(key, value, config) ==
  validateFeatureWith(key, value, Find(config, key, 1), ParseFloat(value))

\* The loop without `if (error)`: every field gets an entry, null or not.
RECURSIVE validateAllFeaturesFrom_unconditional(_, _, _, _)
validateAllFeaturesFrom_unconditional(featuresArg, config, i, errs) ==
  IF i > Len(config) THEN errs
  ELSE validateAllFeaturesFrom_unconditional(featuresArg, config, i + 1,
         Put(errs, config[i].key,
             validateFeature(config[i].key, Get(featuresArg, config[i].key), config)))

\* The loop returning at the first error it finds.
RECURSIVE validateAllFeaturesFrom_shortCircuit(_, _, _, _)
validateAllFeaturesFrom_shortCircuit(featuresArg, config, i, errs) ==
  IF i > Len(config) \/ Len(errs.e) > 0 THEN errs
  ELSE validateAllFeaturesFrom_shortCircuit(featuresArg, config, i + 1,
         IF Truthy(validateFeature(config[i].key, Get(featuresArg, config[i].key), config))
           THEN Put(errs, config[i].key,
                  validateFeature(config[i].key, Get(featuresArg, config[i].key), config))
           ELSE errs)

\* The for-of loop of validateAllFeatures from config[i] on, errors so far given.
RECURSIVE validateAllFeaturesFrom(_, _, _, _)
validateAllFeaturesFrom(featuresArg, config, i, errs) ==
  IF i > Len(config) THEN errs
  ELSE LET feature == config[i]
           value == Get(featuresArg, feature.key)
           err == validateFeature(feature.key, value, config)
       IN validateAllFeaturesFrom(featuresArg, config, i + 1,
            IF Truthy(err) THEN Put(errs, feature.key, err) ELSE errs)

validateAllFeatures(featuresArg, config) ==
  validateAllFeaturesFrom(featuresArg, config, 1, Obj(<< >>))

isValidFeatures(featuresArg, config) ==
  Len(ObjectKeys(validateAllFeatures(featuresArg, config))) = 0

\* config.reduce((acc, f) => ({ ...acc, [f.key]: f.default }), {})
RECURSIVE getDefaultFeaturesFrom(_, _, _)
getDefaultFeaturesFrom(config, i, acc) ==
  IF i > Len(config) THEN acc
  ELSE getDefaultFeaturesFrom(config, i + 1, Put(acc, config[i].key, config[i].default))

getDefaultFeatures(config) == getDefaultFeaturesFrom(config, 1, Obj(<< >>))

(***************************************************************************)
(* API client                                                              *)
(***************************************************************************)
API_BASE_URL == << >>

\* apiClient.post(url, data): the request handed to the network, no outcome yet.
Post(url, data) ==
  [method |-> "POST", url |-> Str(API_BASE_URL \o url), data |-> data,
   outcome |-> Undefined]

predictClassification(featuresArg) ==
  Post(<<"/api/predict/classification">>, Obj(<<[k |-> "features", v |-> featuresArg]>>))

predictRegression(featuresArg) ==
  Post(<<"/api/predict/regression">>, Obj(<<[k |-> "features", v |-> featuresArg]>>))

\* apiClient.get(url, { params }): the request handed to the network.
GetRequest(url, params) ==
  [method |-> "GET", url |-> Str(API_BASE_URL \o url), params |-> params,
   outcome |-> Undefined]

\* getPredictionHistory sending the limit only: every page starts at the top.
getPredictionHistory_noOffset(limit, offset) ==
  GetRequest(<<"/api/predictions/history">>, Obj(<<[k |-> "limit", v |-> limit]>>))

getPredictionHistory(limit, offset) ==
  GetRequest(<<"/api/predictions/history">>,
             Obj(<<[k |-> "limit", v |-> limit], [k |-> "offset", v |-> offset]>>))

\* v?.key, and v.key on a primitive: undefined unless v is an object.
OptGet(v, key) == IF v.t = "object" THEN Get(v, key) ELSE Undefined

\* new Error(message).message
ErrorMessage(message) ==
  IF message = Undefined THEN EmptyStr ELSE Str(JsToString(message))

\* The response interceptor's rejection handler: the message of the Error it
\* rejects with.
InterceptRejected(err) ==
  LET message ==
        Or(OptGet(OptGet(err.response, "data"), "detail"),
        Or(OptGet(OptGet(err.response, "data"), "message"),
        Or(err.message,
           Str(<<"Something went wrong">>))))
  IN ErrorMessage(message)

\* The response interceptor's fulfilment handler: response => response.data
InterceptFulfilled(response) == response.data

(***************************************************************************)
(* What the network can answer                                             *)
(***************************************************************************)
Body(entries) == Obj(entries)

\* The documented success bodies of the two prediction endpoints.
SuccessData(url) ==
  IF url = Str(<<"/api/predict/classification">>)
    THEN Body(<<[k |-> "prediction", v |-> Str(<<"CONFIRMED">>)],
                [k |-> "model_name", v |-> Str(<<"classification_pipeline_v1">>)]>>)
  ELSE IF url = Str(<<"/api/predict/regression">>)
    THEN Body(<<[k |-> "prediction", v |-> Num(247, 2)],
                [k |-> "model_name", v |-> Str(<<"regression_pipeline_v1">>)]>>)
  ELSE Body(<< >>)

FieldErrorsDetail ==
  Obj(<<[k |-> "koi_prad", v |-> Str(<<"koi_prad out of range [0.1,30]">>)]>>)

ErrorBodies ==
  { Body(<< >>),
    Body(<<[k |-> "detail", v |-> Str(<<"Prediction failed">>)]>>),
    Body(<<[k |-> "detail", v |-> EmptyStr], [k |-> "message", v |-> Str(<<"Bad request">>)]>>),
    Body(<<[k |-> "message", v |-> Str(<<"Bad request">>)]>>),
    Body(<<[k |-> "detail", v |-> Str(<<"Prediction failed">>)],
           [k |-> "message", v |-> Str(<<"Bad request">>)]>>),
    Body(<<[k |-> "detail", v |-> FieldErrorsDetail]>>),
    Str(<<"<html>Bad Gateway</html>">>) }

\* The errors axios rejects with: an HTTP error status (with its body), no
\* response at all (network failure, the 30 s timeout), a bare cancellation.
Failures ==
  { [response |-> Obj(<<[k |-> "data", v |-> b]>>),
     message |-> Str(<<"Request failed with status code ">>)] : b \in ErrorBodies }
  \cup { [response |-> Undefined, message |-> Str(<<"Network Error">>)],
         [response |-> Undefined, message |-> Str(<<"timeout of 30000ms exceeded">>)],
         [response |-> Undefined, message |-> Undefined] }

Outcomes(request) ==
  { [ok |-> TRUE, response |-> [data |-> SuccessData(request.url)]] }
  \cup { [ok |-> FALSE, error |-> f] : f \in Failures }

(***************************************************************************)
(* What the user can type                                                  *)
(***************************************************************************)
\* The fields the user edits and leaves.
EditKeys == {"koi_prad", "koi_lum"}

\* What an <input type="number"> reports: the empty string or numeric text.
TypedValues == { EmptyStr, Str(<<"5">>), Str(<<"-", "4">>) }

TaskTypes == {"classification", "regression"}

(***************************************************************************)
(* Direct calls of the validation utilities                                *)
(***************************************************************************)
MaxStrLen == 3

Alphabet == {"0", "1", "3", ".", "-", "x"}

\* Every text over Alphabet of at most MaxStrLen characters.
Texts == UNION { [1..n -> Alphabet] : n \in 0..MaxStrLen }

UnknownKey == "koi_unknown"

ConfigKeys == { FEATURE_CONFIG[i].key : i \in 1..Len(FEATURE_CONFIG) }

\* Arguments of validateFeature(key, value, FEATURE_CONFIG).
FeatureCalls ==
  { [fn |-> "validateFeature", key |-> key, value |-> value] :
      key \in ConfigKeys \cup {UnknownKey},
      value \in { Str(s) : s \in Texts }
                \cup { Undefined, Null, Num(1, 1), Num(3, 0), Num(301, 1), Str(<<"1", "e", "1">>) } }

\* The fields a features map varies; the others keep their defaults.
VariedKeys == <<"koi_prad", "koi_lum", "koi_qof">>

\* A field's value in a features map; Undefined leaves the key out.
FieldValues ==
  { Undefined, Null, EmptyStr, Num(1, 0), Str(<<"x">>), Str(<<"1", "x">>),
    Str(<<"0", ".", "1">>), Str(<<"5">>), Str(<<"-", "3">>), Str(<<"-", "4">>),
    Str(<<"3", "1">>) }

\* The default features with the VariedKeys set as `choice` says.
RECURSIVE WithFields(_, _, _)
WithFields(config, i, choice) ==
  IF i > Len(config) THEN << >>
  ELSE LET key == config[i].key
           at == { j \in 1..Len(VariedKeys) : VariedKeys[j] = key }
           v == IF at = {} THEN config[i].default ELSE choice[CHOOSE j \in at : TRUE]
       IN (IF v = Undefined THEN << >> ELSE <<[k |-> key, v |-> v]>>)
          \o WithFields(config, i + 1, choice)

FeatureMaps ==
  { Obj(WithFields(FEATURE_CONFIG, 1, choice) \o extra) :
      choice \in [1..Len(VariedKeys) -> FieldValues],
      extra \in { << >>, <<[k |-> UnknownKey, v |-> Num(1, 0)]>> } }

\* Arguments of validateAllFeatures / isValidFeatures (featuresArg, FEATURE_CONFIG).
AllFeaturesCalls ==
  { [fn |-> fn, features |-> f] :
      fn \in {"validateAllFeatures", "isValidFeatures"}, f \in FeatureMaps }

NoCall == [fn |-> "none"]
Pending == [t |-> "pending"]

(***************************************************************************)
(* State                                                                   *)
(***************************************************************************)
VARIABLES
  features,   \* InputForm: useState(defaults)
  errors,     \* InputForm: useState({})
  touched,    \* InputForm: useState({})
  taskType,   \* Home: useState('classification')
  result,     \* Home: useState(null)
  error,      \* Home: useState(null)
  isLoading,  \* Home: useState(false)
  pending,    \* requests handed to the network and not yet settled in Home
  submitTick, \* flips at every submit event the form handles
  call,       \* a direct call of a validation utility: its arguments
  ret,        \* what that call returned, Pending before it ran
  predictions,        \* the predictions table: its rows, in the order inserted
  predictions_id_seq, \* the sequence behind `id SERIAL`: its last value
  now,                \* CURRENT_TIMESTAMP
  inserts,            \* per database session: the INSERT statement it is running
  historyPredictions, \* History: useState([]), `predictions`
  historyLoading,     \* History: useState(true), `loading`
  historyError,       \* History: useState(null), `error`
  filter,             \* History: useState('all')
  historyRequest,     \* History: the request of loadHistory, NotMounted before the effect ran
  requests            \* per worker: the prediction request it is handling

formVars == <<features, errors, touched>>
homeVars == <<taskType, result, error, isLoading>>
uiVars == <<features, errors, touched, taskType, result, error, isLoading, pending, submitTick>>
callVars == <<call, ret>>
storeVars == <<predictions, predictions_id_seq, now, inserts>>
historyVars == <<historyPredictions, historyLoading, historyError, filter, historyRequest>>
pipelineVars == <<requests>>
otherVars == <<storeVars, historyVars, pipelineVars>>
vars == <<features, errors, touched, taskType, result, error, isLoading, pending,
          submitTick, call, ret, otherVars>>

True == [t |-> "boolean", b |-> TRUE]

(***************************************************************************)
(* The predictions table (src/database/schema.sql)                         *)
(***************************************************************************)
\* The sequence and the clock stop here.
MaxId == 3
MaxTime == 1

\* The database sessions that run statements side by side.
Sessions == {"s1", "s2"}

\* A session running no statement; outcome is how its last INSERT ended.
Finished(outcome) == [st |-> "idle", outcome |-> outcome]
Idle == Finished("none")

\* The table right after CREATE TABLE: no rows, the sequence not yet used.
InitStore ==
  /\ predictions = << >>
  /\ predictions_id_seq = 0
  /\ now = 0
  /\ inserts = [s \in Sessions |-> Idle]

NotMounted == [t |-> "not mounted"]
Settled == [t |-> "settled"]

\* The History page as constructed, before its mount effect.
InitHistoryPage ==
  /\ historyPredictions = << >>
  /\ historyLoading = TRUE
  /\ historyError = Null
  /\ filter = "all"
  /\ historyRequest = NotMounted

\* A worker handling no request.
NoRequest == [pc |-> "None"]

InitPipeline == requests = [s \in Sessions |-> NoRequest]

Init ==
  /\ features = getDefaultFeatures(FEATURE_CONFIG)
  /\ errors = Obj(<< >>)
  /\ touched = Obj(<< >>)
  /\ taskType = "classification"
  /\ result = Null
  /\ error = Null
  /\ isLoading = FALSE
  /\ pending = << >>
  /\ submitTick = 0
  /\ call = NoCall
  /\ ret = Pending
  /\ InitStore
  /\ InitHistoryPage
  /\ InitPipeline

(***************************************************************************)
(* InputForm                                                               *)
(***************************************************************************)
handleChange(key, value) ==
  /\ features' = Put(features, key, value)
  /\ errors' = IF Truthy(Get(errors, key)) THEN Put(errors, key, Null) ELSE errors
  /\ UNCHANGED <<touched, taskType, result, error, isLoading, pending, submitTick, callVars, otherVars>>

handleBlur(key) ==
  LET err == validateFeature(key, Get(features, key), FEATURE_CONFIG)
  IN /\ touched' = Put(touched, key, True)
     /\ errors' = IF Truthy(err) THEN Put(errors, key, err) ELSE errors
     /\ UNCHANGED <<features, taskType, result, error, isLoading, pending, submitTick, callVars, otherVars>>

\* FEATURE_CONFIG.reduce((acc, f) => ({ ...acc, [f.key]: true }), {})
RECURSIVE AllTouchedFrom(_, _, _)
AllTouchedFrom(config, i, acc) ==
  IF i > Len(config) THEN acc
  ELSE AllTouchedFrom(config, i + 1, Put(acc, config[i].key, True))

\* Home.handleSubmit with the two branches of its conditional exchanged.
Home_handleSubmit_swapped(featuresArg) ==
  /\ isLoading' = TRUE
  /\ error' = Null
  /\ result' = Null
  /\ pending' = Append(pending,
                  IF taskType = "classification"
                    THEN predictRegression(featuresArg)
                    ELSE predictClassification(featuresArg))
  /\ UNCHANGED taskType

\* Home.handleSubmit without setResult(null): the previous result stays.
Home_handleSubmit_keepsResult(featuresArg) ==
  /\ isLoading' = TRUE
  /\ error' = Null
  /\ result' = result
  /\ pending' = Append(pending,
                  IF taskType = "classification"
                    THEN predictClassification(featuresArg)
                    ELSE predictRegression(featuresArg))
  /\ UNCHANGED taskType

\* Home.handleSubmit up to its await: the state it sets and the request it sends.
Home_handleSubmit(featuresArg) ==
  /\ isLoading' = TRUE
  /\ error' = Null
  /\ result' = Null
  /\ pending' = Append(pending,
                  IF taskType = "classification"
                    THEN predictClassification(featuresArg)
                    ELSE predictRegression(featuresArg))
  /\ UNCHANGED taskType

\* InputForm.handleSubmit calling onSubmit whatever validation found.
InputForm_handleSubmit_unguarded ==
  /\ ~isLoading
  /\ errors' = validateAllFeatures(features, FEATURE_CONFIG)
  /\ touched' = AllTouchedFrom(FEATURE_CONFIG, 1, Obj(<< >>))
  /\ submitTick' = 1 - submitTick
  /\ UNCHANGED <<features, callVars, otherVars>>
  /\ Home_handleSubmit(features)

\* InputForm.handleSubmit with a submit button that is never disabled.
InputForm_handleSubmit_enabled ==
  /\ errors' = validateAllFeatures(features, FEATURE_CONFIG)
  /\ touched' = AllTouchedFrom(FEATURE_CONFIG, 1, Obj(<< >>))
  /\ submitTick' = 1 - submitTick
  /\ UNCHANGED <<features, callVars, otherVars>>
  /\ IF Len(ObjectKeys(validateAllFeatures(features, FEATURE_CONFIG))) = 0
       THEN Home_handleSubmit(features)
       ELSE UNCHANGED <<taskType, result, error, isLoading, pending>>

\* InputForm.handleSubmit, fired by the submit button (disabled while isLoading).
InputForm_handleSubmit ==
  LET allErrors == validateAllFeatures(features, FEATURE_CONFIG)
  IN /\ ~isLoading
     /\ errors' = allErrors
     /\ touched' = AllTouchedFrom(FEATURE_CONFIG, 1, Obj(<< >>))
     /\ submitTick' = 1 - submitTick
     /\ UNCHANGED <<features, callVars, otherVars>>
     /\ IF Len(ObjectKeys(allErrors)) = 0
          THEN Home_handleSubmit(features)
          ELSE UNCHANGED <<taskType, result, error, isLoading, pending>>

(***************************************************************************)
(* Home                                                                    *)
(***************************************************************************)
handleTaskTypeChange(newType) ==
  /\ taskType' = newType
  /\ result' = Null
  /\ error' = Null
  /\ UNCHANGED <<features, errors, touched, isLoading, pending, submitTick, callVars, otherVars>>

\* The network answers request i.
Answer(i, outcome) ==
  /\ pending[i].outcome = Undefined
  /\ pending' = [pending EXCEPT ![i].outcome = outcome]
  /\ UNCHANGED <<features, errors, touched, taskType, result, error, isLoading, submitTick, callVars, otherVars>>

Remove(seq, i) == SubSeq(seq, 1, i - 1) \o SubSeq(seq, i + 1, Len(seq))

\* Home.handleSubmit after its await, request i fulfilled: try, then finally.
HandleFulfilled(i) ==
  /\ pending[i].outcome # Undefined
  /\ pending[i].outcome.ok
  /\ result' = InterceptFulfilled(pending[i].outcome.response)
  /\ isLoading' = FALSE
  /\ pending' = Remove(pending, i)
  /\ UNCHANGED <<features, errors, touched, taskType, error, submitTick, callVars, otherVars>>

\* A rejected request sent again instead of surfacing the error.
HandleRejected_retry(i) ==
  /\ pending[i].outcome # Undefined
  /\ ~pending[i].outcome.ok
  /\ pending' = [pending EXCEPT ![i].outcome = Undefined]
  /\ UNCHANGED <<features, errors, touched, taskType, result, error, isLoading,
                 submitTick, callVars, otherVars>>

\* Home.handleSubmit after a rejection, without its finally block.
HandleRejected_noFinally(i) ==
  /\ pending[i].outcome # Undefined
  /\ ~pending[i].outcome.ok
  /\ error' = Or(InterceptRejected(pending[i].outcome.error),
                 Str(<<"An error occurred during prediction">>))
  /\ pending' = Remove(pending, i)
  /\ UNCHANGED <<features, errors, touched, taskType, result, isLoading, submitTick,
                 callVars, otherVars>>

\* Home.handleSubmit after its await, request i rejected: catch, then finally.
HandleRejected(i) ==
  /\ pending[i].outcome # Undefined
  /\ ~pending[i].outcome.ok
  /\ LET errMessage == InterceptRejected(pending[i].outcome.error)
     IN error' = Or(errMessage, Str(<<"An error occurred during prediction">>))
  /\ isLoading' = FALSE
  /\ pending' = Remove(pending, i)
  /\ UNCHANGED <<features, errors, touched, taskType, result, submitTick, callVars, otherVars>>

Next ==
  \/ \E key \in EditKeys, value \in TypedValues : handleChange(key, value)
  \/ \E key \in EditKeys : handleBlur(key)
  \/ InputForm_handleSubmit
  \/ \E newType \in TaskTypes : handleTaskTypeChange(newType)
  \/ \E i \in DOMAIN pending : \E outcome \in Outcomes(pending[i]) : Answer(i, outcome)
  \/ \E i \in DOMAIN pending : HandleFulfilled(i)
  \/ \E i \in DOMAIN pending : HandleRejected(i)

Spec == Init /\ [][Next]_vars

\* The page when what is due happens: axios settles every request it sent,
\* with a response, an error or its timeout (timeout: 30000), and the
\* continuation of an awaited promise that settled is run.  The user edits
\* and leaves one field.
LiveEditKeys == {"koi_prad"}
LiveTypedValues == { EmptyStr, Str(<<"5">>) }

NextLive ==
  \/ \E key \in LiveEditKeys, value \in LiveTypedValues : handleChange(key, value)
  \/ \E key \in LiveEditKeys : handleBlur(key)
  \/ InputForm_handleSubmit
  \/ \E newType \in TaskTypes : handleTaskTypeChange(newType)
  \/ \E i \in DOMAIN pending : \E outcome \in Outcomes(pending[i]) : Answer(i, outcome)
  \/ \E i \in DOMAIN pending : HandleFulfilled(i)
  \/ \E i \in DOMAIN pending : HandleRejected(i)

SpecLive ==
  /\ Init
  /\ [][NextLive]_vars
  /\ WF_vars(\E i \in DOMAIN pending : \E outcome \in Outcomes(pending[i]) : Answer(i, outcome))
  /\ WF_vars(\E i \in DOMAIN pending : HandleFulfilled(i))
  /\ WF_vars(\E i \in DOMAIN pending : HandleRejected(i))

(***************************************************************************)
(* The validation utilities called directly, on every argument of          *)
(* FeatureCalls and AllFeaturesCalls                                       *)
(***************************************************************************)
InitCalls ==
  /\ features = getDefaultFeatures(FEATURE_CONFIG)
  /\ errors = Obj(<< >>)
  /\ touched = Obj(<< >>)
  /\ taskType = "classification"
  /\ result = Null
  /\ error = Null
  /\ isLoading = FALSE
  /\ pending = << >>
  /\ submitTick = 0
  /\ call \in FeatureCalls \cup AllFeaturesCalls
  /\ ret = Pending
  /\ InitStore
  /\ InitHistoryPage
  /\ InitPipeline

CallValidateFeature ==
  /\ call.fn = "validateFeature"
  /\ ret = Pending
  /\ ret' = validateFeature(call.key, call.value, FEATURE_CONFIG)
  /\ UNCHANGED <<uiVars, call, otherVars>>

CallValidateAllFeatures ==
  /\ call.fn = "validateAllFeatures"
  /\ ret = Pending
  /\ ret' = validateAllFeatures(call.features, FEATURE_CONFIG)
  /\ UNCHANGED <<uiVars, call, otherVars>>

CallIsValidFeatures ==
  /\ call.fn = "isValidFeatures"
  /\ ret = Pending
  /\ ret' = [t |-> "boolean", b |-> isValidFeatures(call.features, FEATURE_CONFIG)]
  /\ UNCHANGED <<uiVars, call, otherVars>>

NextCalls ==
  \/ CallValidateFeature
  \/ CallValidateAllFeatures
  \/ CallIsValidFeatures

SpecCalls == InitCalls /\ [][NextCalls]_vars

(***************************************************************************)
(* Statements on the predictions table                                     *)
(***************************************************************************)
\* The input_features of the seed rows.
SeedFeatures ==
  Obj(<<[k |-> "koi_prad", v |-> Num(25, 1)], [k |-> "koi_depth", v |-> Num(150, 0)],
        [k |-> "koi_period", v |-> Num(453, 1)], [k |-> "koi_srad", v |-> Num(12, 1)],
        [k |-> "koi_steff", v |-> Num(5800, 0)], [k |-> "koi_smass", v |-> Num(11, 1)],
        [k |-> "koi_slogg", v |-> Num(43, 1)], [k |-> "koi_lum", v |-> Num(1, 1)],
        [k |-> "koi_impact", v |-> Num(6, 1)], [k |-> "koi_duration", v |-> Num(35, 1)],
        [k |-> "koi_dor", v |-> Num(225, 1)], [k |-> "koi_model_snr", v |-> Num(25, 0)],
        [k |-> "koi_kepmag", v |-> Num(142, 1)], [k |-> "koi_score", v |-> Num(85, 2)]>>)

SeedClassificationResult ==
  Obj(<<[k |-> "prediction", v |-> Str(<<"CONFIRMED">>)],
        [k |-> "confidence", v |-> Num(92, 2)],
        [k |-> "probabilities",
         v |-> Obj(<<[k |-> "CONFIRMED", v |-> Num(92, 2)],
                     [k |-> "FALSE POSITIVE", v |-> Num(8, 2)]>>)]>>)

SeedRegressionResult ==
  Obj(<<[k |-> "prediction", v |-> Num(247, 2)],
        [k |-> "confidence_interval",
         v |-> Obj(<<[k |-> "lower", v |-> Num(215, 2)],
                     [k |-> "upper", v |-> Num(279, 2)]>>)],
        [k |-> "unit", v |-> Str(<<"Earth radii">>)]>>)

\* The VALUES of an INSERT for a prediction of the given task type.
InsertValues(task_type) ==
  [task_type |-> task_type,
   input_features |-> SeedFeatures,
   output_result |-> IF task_type = "regression" THEN SeedRegressionResult
                     ELSE SeedClassificationResult,
   model_name |-> IF task_type = "regression" THEN "regression_pipeline_v1"
                  ELSE "classification_pipeline_v1"]

\* The task types statements are tried with.
InsertTaskTypes == {"classification", "regression", "clustering"}

\* CHECK (task_type IN ('classification', 'regression'))
task_type_check(row) == row.task_type \in {"classification", "regression"}

\* PRIMARY KEY (id): no row of the table has this id.
predictions_pkey(rows, id) == \A i \in 1..Len(rows) : rows[i].id # id

\* INSERT INTO predictions (task_type, input_features, output_result,
\* model_name) VALUES (...), first half: the defaults of the columns left
\* out, id = nextval('predictions_id_seq') and created_at = CURRENT_TIMESTAMP.
InsertDefaults(s, values) ==
  /\ inserts[s].st = "idle"
  /\ predictions_id_seq < MaxId
  /\ predictions_id_seq' = predictions_id_seq + 1
  /\ inserts' = [inserts EXCEPT ![s] =
       [st |-> "defaults",
        row |-> [id |-> predictions_id_seq + 1,
                 task_type |-> values.task_type,
                 input_features |-> values.input_features,
                 output_result |-> values.output_result,
                 model_name |-> values.model_name,
                 created_at |-> now]]]
  /\ UNCHANGED <<predictions, now>>
  /\ UNCHANGED <<uiVars, callVars, historyVars, pipelineVars>>

\* InsertRow without the CHECK constraint.
InsertRow_unchecked(s) ==
  /\ inserts[s].st = "defaults"
  /\ IF predictions_pkey(predictions, inserts[s].row.id)
       THEN /\ predictions' = Append(predictions, inserts[s].row)
            /\ inserts' = [inserts EXCEPT ![s] = Finished("inserted")]
       ELSE /\ predictions' = predictions
            /\ inserts' = [inserts EXCEPT ![s] = Finished("rejected")]
  /\ UNCHANGED <<predictions_id_seq, now>>
  /\ UNCHANGED <<uiVars, callVars, historyVars, pipelineVars>>

\* The INSERT, second half: the row is checked against the constraints and,
\* when it passes, added to the table; otherwise the statement fails.
InsertRow(s) ==
  /\ inserts[s].st = "defaults"
  /\ IF task_type_check(inserts[s].row) /\ predictions_pkey(predictions, inserts[s].row.id)
       THEN /\ predictions' = Append(predictions, inserts[s].row)
            /\ inserts' = [inserts EXCEPT ![s] = Finished("inserted")]
       ELSE /\ predictions' = predictions
            /\ inserts' = [inserts EXCEPT ![s] = Finished("rejected")]
  /\ UNCHANGED <<predictions_id_seq, now>>
  /\ UNCHANGED <<uiVars, callVars, historyVars, pipelineVars>>

\* The INSERT is cancelled or its connection lost after the defaults: no row,
\* and the sequence value is not given back.
InsertAborted(s) ==
  /\ inserts[s].st = "defaults"
  /\ inserts' = [inserts EXCEPT ![s] = Finished("aborted")]
  /\ UNCHANGED <<predictions, predictions_id_seq, now>>
  /\ UNCHANGED <<uiVars, callVars, historyVars, pipelineVars>>

\* UPDATE predictions SET task_type = ... WHERE id = predictions[i].id, which
\* the policy "Allow update access" (USING (true)) lets every role run.
UpdateAccess(i, task_type) ==
  /\ IF task_type_check([predictions[i] EXCEPT !.task_type = task_type])
       THEN predictions' = [predictions EXCEPT ![i].task_type = task_type]
       ELSE predictions' = predictions
  /\ UNCHANGED <<predictions_id_seq, now, inserts>>
  /\ UNCHANGED <<uiVars, callVars, historyVars, pipelineVars>>

\* DELETE FROM predictions WHERE id = predictions[i].id, which the policy
\* "Allow delete access" (USING (true)) lets every role run.
DeleteAccess(i) ==
  /\ predictions' = Remove(predictions, i)
  /\ UNCHANGED <<predictions_id_seq, now, inserts>>
  /\ UNCHANGED <<uiVars, callVars, historyVars, pipelineVars>>

\* Time passes.
Tick ==
  /\ now < MaxTime
  /\ now' = now + 1
  /\ UNCHANGED <<predictions, predictions_id_seq, inserts>>
  /\ UNCHANGED <<uiVars, callVars, historyVars, pipelineVars>>

(***************************************************************************)
(* The history endpoint, GET /api/predictions/history?limit&offset.  Its   *)
(* handler is not among the repository's files here; it is modelled from   *)
(* the History Store contract (list, most recent first).                   *)
(***************************************************************************)
MAX_LIMIT == 200
DEFAULT_LIMIT == 50

\* a comes before b: created_at descending, ties broken by id descending.
MoreRecent(a, b) ==
  \/ a.created_at > b.created_at
  \/ a.created_at = b.created_at /\ a.id > b.id

RECURSIVE MostRecentFirst(_)
MostRecentFirst(rows) ==
  IF rows = {} THEN << >>
  ELSE LET first == CHOOSE r \in rows : \A q \in rows \ {r} : MoreRecent(r, q)
       IN <<first>> \o MostRecentFirst(rows \ {first})

\* list(task_type_filter?, limit, offset) over the rows of the table.
list(rows, task_type_filter, limit, offset) ==
  LET kept == { rows[i] : i \in { j \in 1..Len(rows) :
                  task_type_filter = Undefined
                    \/ Str(<<rows[j].task_type>>) = task_type_filter } }
      n == IF limit > MAX_LIMIT THEN MAX_LIMIT ELSE limit
      last == IF offset + n < Cardinality(kept) THEN offset + n ELSE Cardinality(kept)
  IN SubSeq(MostRecentFirst(kept), offset + 1, last)

\* A row as the JSON object of the response.
RecordJson(row) ==
  Obj(<<[k |-> "id", v |-> Num(row.id, 0)],
        [k |-> "task_type", v |-> Str(<<row.task_type>>)],
        [k |-> "input_features", v |-> row.input_features],
        [k |-> "output_result", v |-> row.output_result],
        [k |-> "model_name", v |-> Str(<<row.model_name>>)],
        [k |-> "created_at", v |-> Str(<<"T">> \o NatToChars(row.created_at))]>>)

\* A query parameter as the integer the handler reads: the value is written
\* into the URL as text and parsed back; absent, the default applies.
QueryInt(params, name, default) ==
  IF Get(params, name) = Undefined THEN default
  ELSE ParseFloat(Str(JsToString(Get(params, name)))).m

\* The response body of GET /api/predictions/history for this request.
HistoryResponse(rows, request) ==
  LET page == list(rows, Undefined,
                   QueryInt(request.params, "limit", DEFAULT_LIMIT),
                   QueryInt(request.params, "offset", 0))
  IN [i \in 1..Len(page) |-> RecordJson(page[i])]

NextStore ==
  \/ \E s \in Sessions, task_type \in InsertTaskTypes :
       InsertDefaults(s, InsertValues(task_type))
  \/ \E s \in Sessions : InsertRow(s)
  \/ \E s \in Sessions : InsertAborted(s)
  \/ \E i \in DOMAIN predictions, task_type \in InsertTaskTypes : UpdateAccess(i, task_type)
  \/ \E i \in DOMAIN predictions : DeleteAccess(i)
  \/ Tick

SpecStore == Init /\ [][NextStore]_vars
(***************************************************************************)
(* The History page (src/frontend/src/pages/History.jsx) over a table that *)
(* does not change while the page is open                                  *)
(***************************************************************************)
HISTORY_PAGE_LIMIT == 50

\* n copies of task_type.
Repeat(task_type, n) == [i \in 1..n |-> task_type]

\* The table after one insert per entry of task_types, oldest first, one tick
\* apart.
StoreOf(task_types) ==
  [i \in 1..Len(task_types) |->
     [id |-> i,
      task_type |-> task_types[i],
      input_features |-> InsertValues(task_types[i]).input_features,
      output_result |-> InsertValues(task_types[i]).output_result,
      model_name |-> InsertValues(task_types[i]).model_name,
      created_at |-> i]]

\* The tables the page is opened on: some classification rows, then a run
\* of regression rows, then some classification rows.
HistoryStores ==
  { StoreOf(Repeat("classification", a) \o Repeat("regression", b)
              \o Repeat("classification", c)) :
      a \in 0..2, b \in {0, 1, 49, 50, 51}, c \in 0..1 }

InitHistory ==
  /\ features = getDefaultFeatures(FEATURE_CONFIG)
  /\ errors = Obj(<< >>)
  /\ touched = Obj(<< >>)
  /\ taskType = "classification"
  /\ result = Null
  /\ error = Null
  /\ isLoading = FALSE
  /\ pending = << >>
  /\ submitTick = 0
  /\ call = NoCall
  /\ ret = Pending
  /\ predictions \in HistoryStores
  /\ predictions_id_seq = Len(predictions)
  /\ now = Len(predictions)
  /\ inserts = [s \in Sessions |-> Idle]
  /\ InitHistoryPage
  /\ InitPipeline

\* useEffect(() => { loadHistory(); }, []): loadHistory up to its await.
loadHistory ==
  /\ historyRequest = NotMounted
  /\ historyLoading' = TRUE
  /\ historyRequest' = getPredictionHistory(Num(HISTORY_PAGE_LIMIT, 0), Num(0, 0))
  /\ UNCHANGED <<historyPredictions, historyError, filter>>
  /\ UNCHANGED <<uiVars, callVars, storeVars, pipelineVars>>

\* What the network can answer to the history request.
HistoryOutcomes(request) ==
  { [ok |-> TRUE, response |-> [data |-> HistoryResponse(predictions, request)]] }
  \cup { [ok |-> FALSE, error |-> f] : f \in Failures }

\* The network answers the history request.
HistoryAnswer ==
  /\ historyRequest \notin {NotMounted, Settled}
  /\ historyRequest.outcome = Undefined
  /\ \E outcome \in HistoryOutcomes(historyRequest) :
       historyRequest' = [historyRequest EXCEPT !.outcome = outcome]
  /\ UNCHANGED <<historyPredictions, historyLoading, historyError, filter>>
  /\ UNCHANGED <<uiVars, callVars, storeVars, pipelineVars>>

\* loadHistory after its await, the request fulfilled: try, then finally.
loadHistoryFulfilled ==
  /\ historyRequest \notin {NotMounted, Settled}
  /\ historyRequest.outcome # Undefined
  /\ historyRequest.outcome.ok
  /\ historyPredictions' = InterceptFulfilled(historyRequest.outcome.response)
  /\ historyLoading' = FALSE
  /\ historyRequest' = Settled
  /\ UNCHANGED <<historyError, filter>>
  /\ UNCHANGED <<uiVars, callVars, storeVars, pipelineVars>>

\* loadHistory after a rejection, without its finally block.
loadHistoryRejected_noFinally ==
  /\ historyRequest \notin {NotMounted, Settled}
  /\ historyRequest.outcome # Undefined
  /\ ~historyRequest.outcome.ok
  /\ historyError' = InterceptRejected(historyRequest.outcome.error)
  /\ historyRequest' = Settled
  /\ UNCHANGED <<historyPredictions, historyLoading, filter>>
  /\ UNCHANGED <<uiVars, callVars, storeVars, pipelineVars>>

\* loadHistory after its await, the request rejected: catch, then finally.
loadHistoryRejected ==
  /\ historyRequest \notin {NotMounted, Settled}
  /\ historyRequest.outcome # Undefined
  /\ ~historyRequest.outcome.ok
  /\ historyError' = InterceptRejected(historyRequest.outcome.error)
  /\ historyLoading' = FALSE
  /\ historyRequest' = Settled
  /\ UNCHANGED <<historyPredictions, filter>>
  /\ UNCHANGED <<uiVars, callVars, storeVars, pipelineVars>>

\* onClick={() => setFilter(f)}: the filter buttons are rendered once loading
\* is over.
setFilter(f) ==
  /\ ~historyLoading
  /\ filter' = f
  /\ UNCHANGED <<historyPredictions, historyLoading, historyError, historyRequest>>
  /\ UNCHANGED <<uiVars, callVars, storeVars, pipelineVars>>

\* predictions.filter(p => filter === 'all' ? true : p.task_type === filter),
\* from element i on.
RECURSIVE FilterFrom(_, _, _)
FilterFrom(records, f, i) ==
  IF i > Len(records) THEN << >>
  ELSE (IF f = "all" \/ Get(records[i], "task_type") = Str(<<f>>)
          THEN <<records[i]>> ELSE << >>)
       \o FilterFrom(records, f, i + 1)

filteredPredictions == FilterFrom(historyPredictions, filter, 1)

NextHistory ==
  \/ loadHistory
  \/ HistoryAnswer
  \/ loadHistoryFulfilled
  \/ loadHistoryRejected
  \/ \E f \in {"all", "classification", "regression"} : setFilter(f)

SpecHistory == InitHistory /\ [][NextHistory]_vars

\* axios gives up on a request that got no answer (timeout: 30000): one of
\* the answers of HistoryAnswer.
HistoryTimeout ==
  /\ historyRequest \notin {NotMounted, Settled}
  /\ historyRequest.outcome = Undefined
  /\ historyRequest' = [historyRequest EXCEPT !.outcome =
       [ok |-> FALSE,
        error |-> [response |-> Undefined,
                   message |-> Str(<<"timeout of 30000ms exceeded">>)]]]
  /\ UNCHANGED <<historyPredictions, historyLoading, historyError, filter>>
  /\ UNCHANGED <<uiVars, callVars, storeVars, pipelineVars>>

\* The page opened on the tables of at most three rows.
InitHistoryLive ==
  /\ InitHistory
  /\ Len(predictions) <= 3

\* The page when what is due happens: the mount effect runs, a request is
\* answered or else timed out, and the continuation of the await is run.
SpecHistoryLive ==
  /\ InitHistoryLive
  /\ [][NextHistory]_vars
  /\ WF_vars(loadHistory)
  /\ WF_vars(HistoryTimeout)
  /\ WF_vars(loadHistoryFulfilled)
  /\ WF_vars(loadHistoryRejected)

(***************************************************************************)
(* What the result components show (ResultDisplay, Charts)                 *)
(***************************************************************************)
\* ToNumber(v) of an operand of *, + or -, for the operands that occur here:
\* numbers, null, undefined and objects.
ToNumber(v) ==
  CASE v.t = "number" -> v
    [] v.t = "null" -> Num(0, 0)
    [] OTHER -> NaN

\* x * y on numbers.
NumberMultiply(x, y) ==
  IF x.k = "NaN" \/ y.k = "NaN" THEN NaN
  ELSE IF x.k = "finite" /\ y.k = "finite" THEN Num(x.m * y.m, x.d + y.d)
  ELSE IF x.m = 0 \/ y.m = 0 THEN NaN
  ELSE IF (x.m < 0) = (y.m < 0) THEN PosInf ELSE NegInf

\* x + y on numbers.
NumberAdd(x, y) ==
  IF x.k = "NaN" \/ y.k = "NaN" THEN NaN
  ELSE IF x.k = "finite" /\ y.k = "finite"
    THEN (IF x.d >= y.d THEN Num(x.m + y.m * Pow10(x.d - y.d), x.d)
          ELSE Num(x.m * Pow10(y.d - x.d) + y.m, y.d))
  ELSE IF x.k = "finite" THEN y
  ELSE IF y.k = "finite" THEN x
  ELSE IF x = y THEN x ELSE NaN

Negate(x) == IF x.k = "NaN" THEN NaN ELSE [x EXCEPT !.m = -x.m]

\* a * b, a + b, a - b
Times(a, b) == NumberMultiply(ToNumber(a), ToNumber(b))
Plus(a, b) == NumberAdd(ToNumber(a), ToNumber(b))
Minus(a, b) == NumberAdd(ToNumber(a), Negate(ToNumber(b)))

Abs(n) == IF n < 0 THEN -n ELSE n

\* The digits of n / 10^digits with `digits` decimals.
FixedDigits(neg, n, digits) ==
  (IF neg THEN <<"-">> ELSE << >>)
  \o NatToChars(n \div Pow10(digits))
  \o (IF digits > 0 THEN <<".">> \o PadZeros(NatToChars(n % Pow10(digits)), digits)
      ELSE << >>)

\* x.toFixed(digits): x rounded to `digits` decimals, a tie going to the
\* larger magnitude.  Numbers are decimal here, so a tie is a decimal tie.
ToFixed(x, digits) ==
  IF x.k # "finite" THEN Str(NumberToString(x))
  ELSE IF x.d <= digits
    THEN Str(FixedDigits(x.m < 0, Abs(x.m) * Pow10(digits - x.d), digits))
  ELSE Str(FixedDigits(x.m < 0,
             (Abs(x.m) + 5 * Pow10(x.d - digits - 1)) \div Pow10(x.d - digits),
             digits))

\* v?.toFixed(digits)
OptToFixed(v, digits) == IF v = Undefined \/ v = Null THEN Undefined ELSE ToFixed(v, digits)

\* ClassificationResult reading the second probability under 'FALSE_POSITIVE'.
ClassificationResult_underscore(resultProp) ==
  [isConfirmed |-> Get(resultProp, "prediction") = Str(<<"CONFIRMED">>),
   prediction |-> Get(resultProp, "prediction"),
   confirmedPct |-> ToFixed(Times(Or(OptGet(Get(resultProp, "probabilities"), "CONFIRMED"),
                                     Num(0, 0)), Num(100, 0)), 1),
   falsePct |-> ToFixed(Times(Or(OptGet(Get(resultProp, "probabilities"), "FALSE_POSITIVE"),
                                 Num(0, 0)), Num(100, 0)), 1),
   confidencePct |-> ToFixed(Times(Get(resultProp, "confidence"), Num(100, 0)), 1)]

\* ClassificationResult: the values it computes and shows.
ClassificationResult(resultProp) ==
  [isConfirmed |-> Get(resultProp, "prediction") = Str(<<"CONFIRMED">>),
   prediction |-> Get(resultProp, "prediction"),
   confirmedPct |-> ToFixed(Times(Or(OptGet(Get(resultProp, "probabilities"), "CONFIRMED"),
                                     Num(0, 0)), Num(100, 0)), 1),
   falsePct |-> ToFixed(Times(Or(OptGet(Get(resultProp, "probabilities"), "FALSE POSITIVE"),
                                 Num(0, 0)), Num(100, 0)), 1),
   confidencePct |-> ToFixed(Times(Get(resultProp, "confidence"), Num(100, 0)), 1)]

\* RegressionResult: the values it shows.
RegressionResult(resultProp) ==
  [prediction |-> OptToFixed(Get(resultProp, "prediction"), 2),
   unit |-> Or(Get(resultProp, "unit"), Str(<<"R_Earth">>)),
   lower |-> OptToFixed(OptGet(Get(resultProp, "confidence_interval"), "lower"), 2),
   upper |-> OptToFixed(OptGet(Get(resultProp, "confidence_interval"), "upper"), 2)]

ResultDisplay(resultProp, taskTypeProp) ==
  IF ~Truthy(resultProp) THEN Null
  ELSE IF taskTypeProp = "classification" THEN ClassificationResult(resultProp)
  ELSE RegressionResult(resultProp)

\* ClassificationChart: the data of its bars.
ClassificationChart(probabilities) ==
  << [name |-> "CONFIRMED",
      value |-> Or(OptGet(probabilities, "CONFIRMED"), Num(0, 0))],
     [name |-> "FALSE POSITIVE",
      value |-> Or(OptGet(probabilities, "FALSE POSITIVE"), Num(0, 0))] >>

\* The data RegressionChart plots, its `center` given.
RegressionChartData(center, confidenceInterval) ==
  << [name |-> "Lower",
      value |-> Or(OptGet(confidenceInterval, "lower"), Minus(center, Num(5, 1)))],
     [name |-> "Prediction", value |-> center],
     [name |-> "Upper",
      value |-> Or(OptGet(confidenceInterval, "upper"), Plus(center, Num(5, 1)))] >>

RegressionChart(prediction, confidenceInterval) ==
  RegressionChartData(Or(prediction, Num(25, 1)), confidenceInterval)

Charts(resultProp, taskTypeProp) ==
  IF ~Truthy(resultProp) THEN Null
  ELSE IF taskTypeProp = "classification"
    THEN ClassificationChart(Get(resultProp, "probabilities"))
  ELSE RegressionChart(Get(resultProp, "prediction"), Get(resultProp, "confidence_interval"))

(***************************************************************************)
(* The results the components are given                                    *)
(***************************************************************************)
\* The probability of CONFIRMED in the classification results tried.
Probabilities == { Num(0, 0), Num(8, 2), Num(1225, 4), Num(5, 1), Num(92, 2), Num(1, 0) }

\* The name of the second class: as the API documentation and the seed data
\* spell it, and with an underscore.
FalsePositiveLabels == { "FALSE POSITIVE", "FALSE_POSITIVE" }

\* A classification response: the more probable class (CONFIRMED on a tie) is
\* the prediction and its probability the confidence.
ClassificationResponse(pConfirmed, falseLabel) ==
  LET pFalse == Minus(Num(1, 0), pConfirmed)
      confirmed == ~Less(pConfirmed, pFalse)
  IN Obj(<<[k |-> "prediction",
            v |-> IF confirmed THEN Str(<<"CONFIRMED">>) ELSE Str(<<falseLabel>>)],
           [k |-> "confidence", v |-> IF confirmed THEN pConfirmed ELSE pFalse],
           [k |-> "probabilities",
            v |-> Obj(<<[k |-> "CONFIRMED", v |-> pConfirmed],
                        [k |-> falseLabel, v |-> pFalse]>>)],
           [k |-> "model_name", v |-> Str(<<"classification_pipeline_v1">>)]>>)

ClassificationResponses ==
  { ClassificationResponse(p, l) : p \in Probabilities, l \in FalsePositiveLabels }

\* Radii, in Earth radii.
Radii == { Num(0, 0), Num(3, 1), Num(215, 2), Num(247, 2), Num(279, 2) }

RegressionResponse(lower, prediction, upper) ==
  Obj(<<[k |-> "prediction", v |-> prediction],
        [k |-> "confidence_interval",
         v |-> Obj(<<[k |-> "lower", v |-> lower], [k |-> "upper", v |-> upper]>>)],
        [k |-> "unit", v |-> Str(<<"Earth radii">>)],
        [k |-> "model_name", v |-> Str(<<"regression_pipeline_v1">>)]>>)

\* The regression responses with lower <= prediction <= upper.
RegressionResponses ==
  { RegressionResponse(t[1], t[2], t[3]) :
      t \in { x \in Radii \X Radii \X Radii : ~Less(x[2], x[1]) /\ ~Less(x[3], x[2]) } }

\* The props of <ResultDisplay> and <Charts>: Home's result and taskType.
RenderCalls ==
  { [fn |-> fn, result |-> r, taskType |-> "classification"] :
      fn \in {"ResultDisplay", "Charts"}, r \in ClassificationResponses }
  \cup { [fn |-> fn, result |-> r, taskType |-> "regression"] :
      fn \in {"ResultDisplay", "Charts"}, r \in RegressionResponses }

InitRender ==
  /\ features = getDefaultFeatures(FEATURE_CONFIG)
  /\ errors = Obj(<< >>)
  /\ touched = Obj(<< >>)
  /\ taskType = "classification"
  /\ result = Null
  /\ error = Null
  /\ isLoading = FALSE
  /\ pending = << >>
  /\ submitTick = 0
  /\ call \in RenderCalls
  /\ ret = Pending
  /\ InitStore
  /\ InitHistoryPage
  /\ InitPipeline

RenderResultDisplay ==
  /\ call.fn = "ResultDisplay"
  /\ ret = Pending
  /\ ret' = ResultDisplay(call.result, call.taskType)
  /\ UNCHANGED <<uiVars, call, otherVars>>

RenderCharts ==
  /\ call.fn = "Charts"
  /\ ret = Pending
  /\ ret' = Charts(call.result, call.taskType)
  /\ UNCHANGED <<uiVars, call, otherVars>>

NextRender ==
  \/ RenderResultDisplay
  \/ RenderCharts

SpecRender == InitRender /\ [][NextRender]_vars

(***************************************************************************)
(* isNumeric (src/docs/deployment_guide.md), with Number(string) as        *)
(* isFinite applies it                                                     *)
(***************************************************************************)
\* The index after the ExponentPart that starts at s[p], p when there is none.
ExponentEnd(s, p) ==
  IF CharAt(s, p) \in {"e", "E"}
    THEN IF CharAt(s, p + 1) \in {"-", "+"}
           THEN (IF DigitsEnd(s, p + 2) > p + 2 THEN DigitsEnd(s, p + 2) ELSE p)
           ELSE (IF DigitsEnd(s, p + 1) > p + 1 THEN DigitsEnd(s, p + 1) ELSE p)
    ELSE p

\* The index after the unsigned literal at s[i1], 0 when there is none:
\* Infinity, or digits with an optional fraction and exponent.
MantissaEnd(s, i1, intEnd, fracEnd) ==
  IF (intEnd - i1) + (IF fracEnd > intEnd THEN fracEnd - intEnd - 1 ELSE 0) = 0
    THEN (IF StartsWith(s, i1, InfinityWord) THEN i1 + Len(InfinityWord) ELSE 0)
    ELSE ExponentEnd(s, fracEnd)

FractionEnd(s, i1, intEnd) ==
  MantissaEnd(s, i1, intEnd,
    IF CharAt(s, intEnd) = "." THEN DigitsEnd(s, intEnd + 1) ELSE intEnd)

\* The index after the StrDecimalLiteral at s[i0], 0 when there is none.
LiteralEnd(s, i0) ==
  IF CharAt(s, i0) \in {"-", "+"}
    THEN FractionEnd(s, i0 + 1, DigitsEnd(s, i0 + 1))
    ELSE FractionEnd(s, i0, DigitsEnd(s, i0))

\* The index after the last character of s that is not white space.
RECURSIVE TrimEnd(_, _)
TrimEnd(s, n) == IF n >= 1 /\ s[n] = " " THEN TrimEnd(s, n - 1) ELSE n + 1

HexDigits == <<"0", "1", "2", "3", "4", "5", "6", "7", "8", "9",
               "a", "b", "c", "d", "e", "f">>
UpperHexDigits == <<"0", "1", "2", "3", "4", "5", "6", "7", "8", "9",
                    "A", "B", "C", "D", "E", "F">>
IsHexDigit(c) == \E i \in 1..16 : HexDigits[i] = c \/ UpperHexDigits[i] = c
HexVal(c) == (CHOOSE i \in 1..16 : HexDigits[i] = c \/ UpperHexDigits[i] = c) - 1

\* The value of the hexadecimal digits s[i..j-1].
RECURSIVE HexValue(_, _, _)
HexValue(s, i, j) ==
  IF j <= i THEN 0 ELSE 16 * HexValue(s, i, j - 1) + HexVal(s[j - 1])

\* s[i0..end-1] is a HexIntegerLiteral: 0x or 0X and at least one hex digit.
IsHexLiteral(s, i0, end) ==
  /\ CharAt(s, i0) = "0"
  /\ CharAt(s, i0 + 1) \in {"x", "X"}
  /\ end > i0 + 2
  /\ \A j \in (i0 + 2)..(end - 1) : IsHexDigit(s[j])

\* Number(text) once the text is trimmed to s[i0..end-1]: 0 for nothing, the
\* value of a literal that is the whole text, NaN otherwise.  (Binary and
\* octal literals, 0b and 0o, do not occur in the texts tried.)
StringToNumberIn(s, i0, end) ==
  IF i0 >= end THEN Num(0, 0)
  ELSE IF IsHexLiteral(s, i0, end) THEN Num(HexValue(s, i0 + 2, end), 0)
  ELSE IF LiteralEnd(s, i0) = end THEN ParseText(s)
  ELSE NaN

StringToNumber(s) == StringToNumberIn(s, SkipWhite(s, 1), TrimEnd(s, Len(s)))

\* isFinite(v): ToNumber(v) is neither NaN nor an infinity.
isFinite(v) ==
  IF v.t = "string" THEN StringToNumber(v.s).k = "finite"
  ELSE ToNumber(v).k = "finite"

\* value !== '' && !isNaN(parseFloat(value)) && isFinite(value)
isNumeric(value) ==
  value # EmptyStr /\ ~IsNaN(ParseFloat(value)) /\ isFinite(value)

(***************************************************************************)
(* The two versions of the API client (src/frontend/src/services/api.js):  *)
(* the one with relative URLs and the one with the base URL from           *)
(* VITE_API_URL.  A URL is the sequence of its "/" and of the texts        *)
(* between them, so that joining and splitting are computed.               *)
(***************************************************************************)
\* VITE_API_URL with the origin only, the /api left out.
VITE_API_URL_origin == <<"https:", "/", "/", "your-backend-url.onrender.com">>

\* VITE_API_URL=https://your-backend-url.onrender.com/api
VITE_API_URL == <<"https:", "/", "/", "your-backend-url.onrender.com", "/", "api">>

\* url.replace(/^\/+/, '')
RECURSIVE StripLeadingSlashes(_)
StripLeadingSlashes(url) ==
  IF url # << >> /\ Head(url) = "/" THEN StripLeadingSlashes(Tail(url)) ELSE url

\* url.replace(/\/?\/$/, ''): at most two slashes at the end are removed.
StripTrailingSlashes(url) ==
  IF Len(url) >= 2 /\ url[Len(url)] = "/" /\ url[Len(url) - 1] = "/"
    THEN SubSeq(url, 1, Len(url) - 2)
  ELSE IF Len(url) >= 1 /\ url[Len(url)] = "/" THEN SubSeq(url, 1, Len(url) - 1)
  ELSE url

\* axios: a URL that starts with a scheme and "//".
isAbsoluteURL(url) ==
  Len(url) >= 3 /\ url[1] \in {"http:", "https:"} /\ url[2] = "/" /\ url[3] = "/"

\* axios: combineURLs(baseURL, relativeURL)
combineURLs(baseURL, relativeURL) ==
  IF relativeURL # << >>
    THEN StripTrailingSlashes(baseURL) \o <<"/">> \o StripLeadingSlashes(relativeURL)
    ELSE baseURL

\* axios: buildFullPath(baseURL, requestedURL)
buildFullPath(baseURL, requestedURL) ==
  IF baseURL # << >> /\ ~isAbsoluteURL(requestedURL)
    THEN combineURLs(baseURL, requestedURL)
    ELSE requestedURL

\* A request of an axios instance created with this baseURL.
ClientRequest(baseURL, method, url, data, params) ==
  [method |-> method, url |-> buildFullPath(baseURL, url), data |-> data,
   params |-> params]

\* A parameter with a default value: `limit = 50`.
DefaultTo(v, d) == IF v = Undefined THEN d ELSE v

FeaturesBody(featuresArg) == Obj(<<[k |-> "features", v |-> featuresArg]>>)

HistoryParams(limit, offset) ==
  Obj(<<[k |-> "limit", v |-> DefaultTo(limit, Num(DEFAULT_LIMIT, 0))],
        [k |-> "offset", v |-> DefaultTo(offset, Num(0, 0))]>>)

\* The calls of the client with relative URLs (API_BASE_URL = '').
RelativeClient(fn, args) ==
  CASE fn = "predictClassification" ->
         ClientRequest(API_BASE_URL, "POST",
           <<"/", "api", "/", "predict", "/", "classification">>,
           FeaturesBody(args.features), Undefined)
    [] fn = "predictRegression" ->
         ClientRequest(API_BASE_URL, "POST",
           <<"/", "api", "/", "predict", "/", "regression">>,
           FeaturesBody(args.features), Undefined)
    [] fn = "getPredictionHistory" ->
         ClientRequest(API_BASE_URL, "GET",
           <<"/", "api", "/", "predictions", "/", "history">>,
           Undefined, HistoryParams(args.limit, args.offset))
    [] fn = "getModelInfo" ->
         ClientRequest(API_BASE_URL, "GET",
           <<"/", "api", "/", "models", "/", "info">>, Undefined, Undefined)
    [] fn = "checkHealth" ->
         ClientRequest(API_BASE_URL, "GET",
           <<"/", "api", "/", "health">>, Undefined, Undefined)

\* The calls of the client with API_BASE_URL = import.meta.env.VITE_API_URL.
EnvClient(fn, args) ==
  CASE fn = "predictClassification" ->
         ClientRequest(VITE_API_URL, "POST",
           <<"/", "predict", "/", "classification">>,
           FeaturesBody(args.features), Undefined)
    [] fn = "predictRegression" ->
         ClientRequest(VITE_API_URL, "POST",
           <<"/", "predict", "/", "regression">>,
           FeaturesBody(args.features), Undefined)
    [] fn = "getPredictionHistory" ->
         ClientRequest(VITE_API_URL, "GET",
           <<"/", "predictions", "/", "history">>,
           Undefined, HistoryParams(args.limit, args.offset))
    [] fn = "getModelInfo" ->
         ClientRequest(VITE_API_URL, "GET",
           <<"/", "models", "/", "info">>, Undefined, Undefined)
    [] fn = "checkHealth" ->
         ClientRequest(VITE_API_URL, "GET", <<"/", "health">>, Undefined, Undefined)

\* The path of a URL: what follows the origin of an absolute URL, the URL
\* itself otherwise.
PathOf(url) == IF isAbsoluteURL(url) THEN SubSeq(url, 5, Len(url)) ELSE url

\* The calls tried: every function of the clients, on a few feature maps and
\* on limits and offsets given or left to their defaults.
ClientFeatures ==
  { getDefaultFeatures(FEATURE_CONFIG), Obj(<< >>),
    Put(getDefaultFeatures(FEATURE_CONFIG), "koi_prad", Str(<<"5">>)),
    Put(getDefaultFeatures(FEATURE_CONFIG), UnknownKey, Num(1, 0)) }

ClientLimits == { Undefined, Num(1, 0), Num(2, 0), Num(3, 0), Num(50, 0), Num(200, 0) }
ClientOffsets == { Undefined, Num(0, 0), Num(1, 0), Num(2, 0), Num(50, 0) }

ClientCalls ==
  { [client |-> c, fn |-> fn, args |-> [features |-> f]] :
      c \in {"relative", "env"}, fn \in {"predictClassification", "predictRegression"},
      f \in ClientFeatures }
  \cup { [client |-> c, fn |-> "getPredictionHistory",
          args |-> [limit |-> l, offset |-> o]] :
      c \in {"relative", "env"}, l \in ClientLimits, o \in ClientOffsets }
  \cup { [client |-> c, fn |-> fn, args |-> << >>] :
      c \in {"relative", "env"}, fn \in {"getModelInfo", "checkHealth"} }

InitClients ==
  /\ features = getDefaultFeatures(FEATURE_CONFIG)
  /\ errors = Obj(<< >>)
  /\ touched = Obj(<< >>)
  /\ taskType = "classification"
  /\ result = Null
  /\ error = Null
  /\ isLoading = FALSE
  /\ pending = << >>
  /\ submitTick = 0
  /\ call \in ClientCalls
  /\ ret = Pending
  /\ InitStore
  /\ InitHistoryPage
  /\ InitPipeline

\* A call of the relative-URL client: the request it hands to axios.
CallRelativeClient ==
  /\ call.client = "relative"
  /\ ret = Pending
  /\ ret' = RelativeClient(call.fn, call.args)
  /\ UNCHANGED <<uiVars, call, otherVars>>

\* A call of the VITE_API_URL client: the request it hands to axios.
CallEnvClient ==
  /\ call.client = "env"
  /\ ret = Pending
  /\ ret' = EnvClient(call.fn, call.args)
  /\ UNCHANGED <<uiVars, call, otherVars>>

NextClients ==
  \/ CallRelativeClient
  \/ CallEnvClient

SpecClients == InitClients /\ [][NextClients]_vars

(***************************************************************************)
(* The request pipeline behind POST /api/predict/<task_type>.  Its handler *)
(* is not among the repository's files here; it is modelled from the       *)
(* component design: Validator, Model Registry, Inference Adapter, Result  *)
(* Shaper, History Store and the pipeline's state machine                  *)
(* Received -> Validating -> (Rejected | Inferring) -> Shaping ->          *)
(* Persisting -> Responded.  Each worker appends through its own database  *)
(* session.                                                                *)
(***************************************************************************)
\* The feature maps requests are tried with: the form's defaults, an empty
\* map, a radius above its maximum and a key outside the schema.
RawMaps ==
  { getDefaultFeatures(FEATURE_CONFIG),
    Obj(<< >>),
    Put(getDefaultFeatures(FEATURE_CONFIG), "koi_prad", Num(31, 0)),
    Put(getDefaultFeatures(FEATURE_CONFIG), UnknownKey, Num(1, 0)) }

\* The numeric parse of a value of the map, for the values tried here.
NumericParse(v) == IF v.t = "number" THEN v ELSE NaN

\* What the Validator records for one FeatureSpec, "" when nothing.
FieldError(raw_map, featureSpec) ==
  IF Get(raw_map, featureSpec.key) \in {Undefined, EmptyStr}
    THEN "missing required field"
  ELSE IF IsNaN(NumericParse(Get(raw_map, featureSpec.key)))
    THEN "must be numeric"
  ELSE IF \/ Less(NumericParse(Get(raw_map, featureSpec.key)), featureSpec.min)
          \/ Less(featureSpec.max, NumericParse(Get(raw_map, featureSpec.key)))
    THEN "out of range"
  ELSE ""

\* validate(raw_map, schema), its FieldErrors: every FeatureSpec is checked,
\* and every key outside the schema is an error.
validate(raw_map, schema) ==
  { [key |-> schema[i].key, error |-> FieldError(raw_map, schema[i])] :
      i \in { j \in 1..Len(schema) : FieldError(raw_map, schema[j]) # "" } }
  \cup { [key |-> raw_map.e[i].k, error |-> "unknown field"] :
      i \in { j \in 1..Len(raw_map.e) :
                \A n \in 1..Len(schema) : schema[n].key # raw_map.e[j].k } }

\* validate(raw_map, schema), its FeatureVector: the values as numbers, in
\* the order of the schema.
FeatureVector(raw_map, schema) ==
  Obj([i \in 1..Len(schema) |->
         [k |-> schema[i].key, v |-> NumericParse(Get(raw_map, schema[i].key))]])

Failure(name) == [failure |-> name]

\* resolve(task_type) of the Model Registry.
resolve(task_type) ==
  IF task_type \in {"classification", "regression"}
    THEN [task_type |-> task_type,
          model_name |-> InsertValues(task_type).model_name]
    ELSE Failure("UnknownTaskType")

\* The raw scores the models are taken to return: for classification the
\* estimates of CONFIRMED and FALSE POSITIVE, summing to 1 or to 0; for
\* regression the point estimate and its standard error.
RawScores(task_type) ==
  IF task_type = "regression"
    THEN { <<Num(247, 2), Num(25, 2)>>, <<Num(3, 1), Num(25, 2)>>,
           <<Num(3, 1), Num(5, 1)>> }
    ELSE { <<Num(92, 2), Num(8, 2)>>, <<Num(5, 1), Num(5, 1)>>,
           <<Num(8, 2), Num(92, 2)>>, <<Num(0, 0), Num(0, 0)>> }

\* The 95% interval is the point estimate -+ Z95 standard errors.
Z95 == Num(196, 2)

\* The Result Shaper: the prediction of the response, or DegenerateScores.
shape(task_type, raw) ==
  IF task_type = "regression"
    THEN RegressionResponse(
           IF Less(Minus(raw[1], Times(Z95, raw[2])), Num(0, 0)) THEN Num(0, 0)
           ELSE Minus(raw[1], Times(Z95, raw[2])),
           raw[1],
           Plus(raw[1], Times(Z95, raw[2])))
  ELSE IF Plus(raw[1], raw[2]) = Num(0, 0) THEN Failure("DegenerateScores")
  ELSE ClassificationResponse(raw[1], "FALSE POSITIVE")

\* The HTTP responses of the pipeline.
Success(prediction) == [status |-> 200, body |-> prediction]
ValidationError(fieldErrors) == [status |-> 422, body |-> [detail |-> fieldErrors]]
ServerError == [status |-> 500, body |-> [detail |-> "Internal server error"]]

\* The pipeline in its terminal state; logged is what it wrote to the log.
Responded(response, logged) ==
  [pc |-> "Responded", response |-> response, logged |-> logged]

\* The record_without_id the pipeline appends for a shaped prediction.
HistoryRecord(request) ==
  [task_type |-> request.task_type,
   input_features |-> request.vector,
   output_result |-> request.result,
   model_name |-> resolve(request.task_type).model_name]

\* A request arrives at a worker.
Receive(s, task_type, raw_map) ==
  /\ requests[s] = NoRequest
  /\ requests' = [requests EXCEPT ![s] =
       [pc |-> "Received", task_type |-> task_type, raw_map |-> raw_map]]
  /\ UNCHANGED <<uiVars, callVars, storeVars, historyVars>>

\* Received -> Validating -> (Rejected | Inferring)
Validate(s) ==
  /\ requests[s].pc = "Received"
  /\ requests' = [requests EXCEPT ![s] =
       IF validate(requests[s].raw_map, FEATURE_CONFIG) # {}
         THEN [pc |-> "Rejected",
               fieldErrors |-> validate(requests[s].raw_map, FEATURE_CONFIG)]
         ELSE [pc |-> "Inferring", task_type |-> requests[s].task_type,
               vector |-> FeatureVector(requests[s].raw_map, FEATURE_CONFIG)]]
  /\ UNCHANGED <<uiVars, callVars, storeVars, historyVars>>

\* Rejected: the response carries the FieldErrors; nothing else happens.
Reject(s) ==
  /\ requests[s].pc = "Rejected"
  /\ requests' = [requests EXCEPT ![s] =
       Responded(ValidationError(requests[s].fieldErrors), "ValidationError")]
  /\ UNCHANGED <<uiVars, callVars, storeVars, historyVars>>

\* Inferring: resolve the artifact and run it; a failure goes directly to an
\* error response.
Infer(s) ==
  /\ requests[s].pc = "Inferring"
  /\ IF resolve(requests[s].task_type) = Failure("UnknownTaskType")
       THEN requests' = [requests EXCEPT ![s] =
              Responded(ServerError, "UnknownTaskType")]
       ELSE \E raw \in RawScores(requests[s].task_type) :
              requests' = [requests EXCEPT ![s] =
                [pc |-> "Shaping", task_type |-> requests[s].task_type,
                 vector |-> requests[s].vector, raw |-> raw]]
  /\ UNCHANGED <<uiVars, callVars, storeVars, historyVars>>

\* Shaping: the raw scores become the prediction; a failure goes directly to
\* an error response.
Shape(s) ==
  /\ requests[s].pc = "Shaping"
  /\ requests' = [requests EXCEPT ![s] =
       IF shape(requests[s].task_type, requests[s].raw) = Failure("DegenerateScores")
         THEN Responded(ServerError, "DegenerateScores")
         ELSE [pc |-> "Persisting", task_type |-> requests[s].task_type,
               vector |-> requests[s].vector,
               result |-> shape(requests[s].task_type, requests[s].raw)]]
  /\ UNCHANGED <<uiVars, callVars, storeVars, historyVars>>

\* Persisting: append(record_without_id) starts, as the INSERT of the
\* worker's session; InsertRow or InsertAborted ends it.
Persist(s) ==
  /\ requests[s].pc = "Persisting"
  /\ inserts[s] = Idle
  /\ InsertDefaults(s, HistoryRecord(requests[s]))

\* Respond that turns a failed append into an error response.
Respond_commitGate(s) ==
  /\ requests[s].pc = "Persisting"
  /\ inserts[s].st = "idle"
  /\ inserts[s].outcome # "none"
  /\ requests' = [requests EXCEPT ![s] =
       IF inserts[s].outcome = "inserted"
         THEN Responded(Success(requests[s].result), "")
         ELSE Responded(ServerError, "PersistenceFailure")]
  /\ UNCHANGED <<uiVars, callVars, storeVars, historyVars>>

\* Persisting -> Responded, once the append has ended: the prediction is
\* returned; a failed append is logged.
Respond(s) ==
  /\ requests[s].pc = "Persisting"
  /\ inserts[s].st = "idle"
  /\ inserts[s].outcome # "none"
  /\ requests' = [requests EXCEPT ![s] =
       Responded(Success(requests[s].result),
                 IF inserts[s].outcome = "inserted" THEN "" ELSE "PersistenceFailure")]
  /\ UNCHANGED <<uiVars, callVars, storeVars, historyVars>>

NextPipeline ==
  \/ \E s \in Sessions, task_type \in InsertTaskTypes, raw_map \in RawMaps :
       Receive(s, task_type, raw_map)
  \/ \E s \in Sessions : Validate(s)
  \/ \E s \in Sessions : Reject(s)
  \/ \E s \in Sessions : Infer(s)
  \/ \E s \in Sessions : Shape(s)
  \/ \E s \in Sessions : Persist(s)
  \/ \E s \in Sessions : InsertRow(s)
  \/ \E s \in Sessions : InsertAborted(s)
  \/ \E s \in Sessions : Respond(s)

SpecPipeline == Init /\ [][NextPipeline]_vars

(***************************************************************************)
(* Properties                                                              *)
(***************************************************************************)
Returned == ret # Pending

KeyAt(i) == FEATURE_CONFIG[i].key

SchemaKeys == [i \in 1..Len(FEATURE_CONFIG) |-> KeyAt(i)]

IsEmptyValue(v) == v = Undefined \/ v = Null \/ v = EmptyStr

\* v is present, parses to a finite number, and that number is in [min, max].
InRangeNumeric(featureConfig, v) ==
  /\ v.t \in {"number", "string"}
  /\ v # EmptyStr
  /\ ParseFloat(v).k = "finite"
  /\ ~Less(ParseFloat(v), featureConfig.min)
  /\ ~Less(featureConfig.max, ParseFloat(v))

AllInRange(f) ==
  \A i \in 1..Len(FEATURE_CONFIG) : InRangeNumeric(FEATURE_CONFIG[i], Get(f, KeyAt(i)))

HasErrors(errs) == Len(ObjectKeys(errs)) > 0

IsAtLeastError(r) == r.t = "string" /\ Len(r.s) >= 2 /\ r.s[2] = " must be at least "
IsAtMostError(r) == r.t = "string" /\ Len(r.s) >= 2 /\ r.s[2] = " must be at most "

\* C1: a features map in which every schema key is present with a numeric
\* value inside that key's [min, max] gets an empty error map from
\* validateAllFeatures, and isValidFeatures is true of it.
C1_InRangeAccepted ==
  (call.fn \in {"validateAllFeatures", "isValidFeatures"} /\ Returned
     /\ AllInRange(call.features))
  => IF call.fn = "validateAllFeatures" THEN ret = Obj(<< >>) ELSE ret = True

C1_Witness ==
  /\ call.fn = "validateAllFeatures"
  /\ Returned
  /\ AllInRange(call.features)
  /\ Get(call.features, "koi_prad") = Str(<<"0", ".", "1">>)
  /\ Get(call.features, "koi_lum") = Str(<<"5">>)
  /\ ret = Obj(<< >>)

\* C3: for a schema key and a value that parses as a number, validateFeature
\* returns the at-least error exactly when the number is below min, the
\* at-most error exactly when it is not below min and above max, and null
\* otherwise; a value equal to min or to max is accepted.
C3_BoundsInclusive ==
  (call.fn = "validateFeature" /\ Returned /\ call.key \in ConfigKeys
     /\ ~IsEmptyValue(call.value) /\ ~IsNaN(ParseFloat(call.value)))
  => /\ IsAtLeastError(ret)
          <=> Less(ParseFloat(call.value), Find(FEATURE_CONFIG, call.key, 1).min)
     /\ IsAtMostError(ret)
          <=> /\ ~Less(ParseFloat(call.value), Find(FEATURE_CONFIG, call.key, 1).min)
              /\ Less(Find(FEATURE_CONFIG, call.key, 1).max, ParseFloat(call.value))
     /\ (~IsAtLeastError(ret) /\ ~IsAtMostError(ret)) => ret = Null
     /\ ParseFloat(call.value) \in { Find(FEATURE_CONFIG, call.key, 1).min,
                                     Find(FEATURE_CONFIG, call.key, 1).max }
          => ret = Null

C3_Witness ==
  /\ call.fn = "validateFeature"
  /\ call.key = "koi_prad"
  /\ call.value = Str(<<"3", "0">>)
  /\ ret = Null

\* C4: validateAllFeatures records an error for every key of the features map
\* that is not in the schema.
C4_UnknownKeyRejected ==
  (call.fn = "validateAllFeatures" /\ Returned)
  => \A i \in 1..Len(call.features.e) :
       call.features.e[i].k \notin ConfigKeys => Truthy(Get(ret, call.features.e[i].k))

\* C5: the error map validateAllFeatures returns has an entry for exactly the
\* schema keys whose own validateFeature result is non-null, each entry that
\* result: k invalid fields give k entries.
C5_NotShortCircuited ==
  (call.fn = "validateAllFeatures" /\ Returned)
  => LET invalid == { k \in ConfigKeys :
                        validateFeature(k, Get(call.features, k), FEATURE_CONFIG) # Null }
     IN /\ { ret.e[i].k : i \in 1..Len(ret.e) } = invalid
        /\ Len(ret.e) = Cardinality(invalid)
        /\ \A k \in invalid :
             Get(ret, k) = validateFeature(k, Get(call.features, k), FEATURE_CONFIG)

C5_Witness ==
  /\ call.fn = "validateAllFeatures"
  /\ Returned
  /\ Len(ObjectKeys(ret)) = 3

\* The step is a submit event handled by the form.
SubmitStep == submitTick' # submitTick

\* The request the step hands to the network, when it hands one.
Sent == pending'[Len(pending')]

\* C2: whenever the form is submitted with a schema key absent or empty, the
\* validation result it shows has an entry for that key; and no key present
\* with an in-range value has one.
C2_MissingKeyFlagged ==
  [][SubmitStep =>
       \A i \in 1..Len(FEATURE_CONFIG) :
         /\ IsEmptyValue(Get(features, KeyAt(i))) => Truthy(Get(errors', KeyAt(i)))
         /\ InRangeNumeric(FEATURE_CONFIG[i], Get(features, KeyAt(i)))
              => ~Truthy(Get(errors', KeyAt(i)))]_vars

\* C6: whenever a submit passes validation, the features of the request it
\* sends have one entry per schema key, in schema order, each a number.
C6_SubmittedVectorNumeric ==
  [][(SubmitStep /\ Len(pending') > Len(pending)) =>
       /\ ObjectKeys(Get(Sent.data, "features")) = SchemaKeys
       /\ \A i \in 1..Len(FEATURE_CONFIG) :
            Get(Get(Sent.data, "features"), KeyAt(i)).t = "number"]_vars

\* C7: a submit of form values that validation finds any error in shows the
\* full error map and changes nothing else: onSubmit is not called, so Home's
\* state and the requests in flight are as before.
C7_RejectedSubmitHasNoEffect ==
  [][(SubmitStep /\ HasErrors(validateAllFeatures(features, FEATURE_CONFIG))) =>
       /\ errors' = validateAllFeatures(features, FEATURE_CONFIG)
       /\ UNCHANGED <<features, taskType, result, error, isLoading, pending>>]_vars

C7_Witness ==
  /\ submitTick = 1
  /\ Get(features, "koi_prad") = Str(<<"-", "4">>)
  /\ ObjectKeys(touched) = SchemaKeys
  /\ ObjectKeys(errors) = <<"koi_prad">>
  /\ pending = << >>
  /\ ~isLoading

\* C8: every request a step sends is a POST to the endpoint of the task type
\* selected in the state the submit happens in, with body {features: <the
\* form's features>}, and it is the only request the step sends.
C8_DispatchedToSelectedTask ==
  [][Len(pending') > Len(pending) =>
       /\ Len(pending') = Len(pending) + 1
       /\ Sent.method = "POST"
       /\ Sent.url = Str(<<IF taskType = "classification"
                             THEN "/api/predict/classification"
                             ELSE "/api/predict/regression">>)
       /\ Sent.data = Obj(<<[k |-> "features", v |-> features]>>)]_vars

C8_Witness ==
  /\ taskType = "regression"
  /\ Len(pending) = 1
  /\ pending[1].url = Str(<<"/api/predict/regression">>)

\* pending' holds no request that was not already in flight in pending: each
\* of its entries is an entry of pending, as it was or with its answer added.
NoNewRequest ==
  /\ Len(pending') <= Len(pending)
  /\ \A j \in 1..Len(pending') : \E i \in 1..Len(pending) :
       \/ pending'[j] = pending[i]
       \/ /\ pending[i].outcome = Undefined
          /\ pending'[j].outcome # Undefined
          /\ [pending'[j] EXCEPT !.outcome = Undefined] = pending[i]

\* C9: a submit that passes validation sends exactly one request, and no other
\* step sends any: a request that succeeded or failed is not sent again.
C9_NoAutomaticRetry ==
  [][IF SubmitStep /\ ~HasErrors(validateAllFeatures(features, FEATURE_CONFIG))
       THEN Len(pending') = Len(pending) + 1 /\ SubSeq(pending', 1, Len(pending)) = pending
       ELSE NoNewRequest]_vars

C9_Witness ==
  /\ error # Null
  /\ pending = << >>
  /\ ~isLoading
  /\ submitTick = 1

\* A value the claim counts as there: not undefined, null or the empty string.
IsThere(v) == v # Undefined /\ v # Null /\ v # EmptyStr

\* The message C10 says a failure surfaces.
ClaimedMessage(err) ==
  IF IsThere(OptGet(OptGet(err.response, "data"), "detail"))
    THEN OptGet(OptGet(err.response, "data"), "detail")
  ELSE IF IsThere(OptGet(OptGet(err.response, "data"), "message"))
    THEN OptGet(OptGet(err.response, "data"), "message")
  ELSE IF IsThere(err.message) THEN err.message
  ELSE Str(<<"Something went wrong">>)

\* C10: when Home handles a failed request, the error it shows is the body's
\* detail if there is one, else the body's message, else the transport
\* error's message, else 'Something went wrong'; and it is a non-empty string.
C10_ErrorMessageChain ==
  [][\A i \in 1..Len(pending) :
       (pending[i].outcome # Undefined /\ ~pending[i].outcome.ok
          /\ pending' = Remove(pending, i) /\ ~isLoading')
       => /\ error' = ClaimedMessage(pending[i].outcome.error)
          /\ error'.t = "string"
          /\ Len(error'.s) > 0]_vars

\* v carries the per-field message msg: as an entry of an object, or as part
\* of a text.
CarriesMessage(v, key, msg) ==
  \/ v.t = "object" /\ Get(v, key) = msg
  \/ /\ v.t = "string"
     /\ msg.t = "string"
     /\ \E j \in 1..Len(v.s) :
          j + Len(msg.s) - 1 <= Len(v.s) /\ SubSeq(v.s, j, j + Len(msg.s) - 1) = msg.s

\* C11: when Home handles a request rejected with a body whose detail is a
\* field-to-message map, the error it shows carries every per-field message
\* of that map.
C11_FieldDetailCarried ==
  [][\A i \in 1..Len(pending) :
       (/\ pending[i].outcome # Undefined
        /\ ~pending[i].outcome.ok
        /\ OptGet(OptGet(pending[i].outcome.error.response, "data"), "detail").t = "object"
        /\ pending' = Remove(pending, i)
        /\ ~isLoading')
       => LET detail == OptGet(OptGet(pending[i].outcome.error.response, "data"), "detail")
          IN \A j \in 1..Len(detail.e) :
               CarriesMessage(error', detail.e[j].k, detail.e[j].v)]_vars

\* C12: the rows of the predictions table have pairwise distinct ids, and a
\* row inserted after another has the greater id.
C12_IdsIncreaseInInsertionOrder ==
  \A i, j \in 1..Len(predictions) :
    i < j => predictions[i].id < predictions[j].id

\* The part of C12 that holds: no two rows share an id.
IdsDistinct ==
  \A i, j \in 1..Len(predictions) : i # j => predictions[i].id # predictions[j].id

\* C13: no step removes or changes a row of the predictions table: every row
\* there before the step is there, with the same content, after it.
C13_AppendOnly ==
  [][\A i \in 1..Len(predictions) :
       \E j \in 1..Len(predictions') : predictions'[j] = predictions[i]]_vars

\* The page sizes paging is checked with.
PageSizes == {1, 2, 3}

\* Page number k (from 0) of the history, fetched with limit L.
Page(L, k) == HistoryResponse(predictions, getPredictionHistory(Num(L, 0), Num(k * L, 0)))

\* Pages k, k+1, ..., last one after another.
RECURSIVE PagesFrom(_, _, _)
PagesFrom(L, k, last) ==
  IF k > last THEN << >> ELSE Page(L, k) \o PagesFrom(L, k + 1, last)

\* The row of the table a record of a response stands for.
RowOf(record) ==
  CHOOSE r \in { predictions[i] : i \in 1..Len(predictions) } : Num(r.id, 0) = Get(record, "id")

HistoryLoaded == ~historyLoading /\ historyError = Null

\* The up-to-HISTORY_PAGE_LIMIT newest rows of the table of the task type the
\* filter selects (all rows under 'all'), most recent first.
NewestOfFilter ==
  LET page == list(predictions, IF filter = "all" THEN Undefined ELSE Str(<<filter>>),
                   HISTORY_PAGE_LIMIT, 0)
  IN [i \in 1..Len(page) |-> RecordJson(page[i])]

\* C15: once the History page has loaded, the records it shows under a task
\* filter are the up-to-50 newest rows of that task type, most recent first;
\* under 'all', the up-to-50 newest rows.
C15_FilterShowsNewestOfTask ==
  HistoryLoaded => filteredPredictions = NewestOfFilter

\* The part of C15 that holds: under 'all' the page shows the newest rows.
AllShowsNewest ==
  (HistoryLoaded /\ filter = "all") => filteredPredictions = NewestOfFilter

\* The classification result r gives its probabilities under CONFIRMED and
\* falseLabel, they sum to 1, and its confidence is the probability of its
\* prediction.
OverLabels(r, falseLabel) ==
  /\ ObjectKeys(Get(r, "probabilities")) = <<"CONFIRMED", falseLabel>>
  /\ Plus(Get(Get(r, "probabilities"), "CONFIRMED"),
          Get(Get(r, "probabilities"), falseLabel)) = Num(1, 0)
  /\ Get(r, "prediction") \in { Str(<<"CONFIRMED">>), Str(<<falseLabel>>) }
  /\ Get(r, "confidence") = Get(Get(r, "probabilities"), Get(r, "prediction").s[1])

\* The chart's two probabilities sum to 1; the confidence ClassificationResult
\* shows is the probability it shows for the predicted label.
ShownConsistently ==
  IF call.fn = "Charts"
    THEN Plus(ret[1].value, ret[2].value) = Num(1, 0)
    ELSE /\ ret.confidencePct = (IF ret.isConfirmed THEN ret.confirmedPct ELSE ret.falsePct)
         /\ ret.confidencePct = ToFixed(Times(Get(call.result, "confidence"), Num(100, 0)), 1)

C17_PlottedValuesAreResponse ==
  (call.fn = "Charts" /\ Returned /\ call.taskType = "regression")
  => /\ ret[1].value = Get(Get(call.result, "confidence_interval"), "lower")
     /\ ret[2].value = Get(call.result, "prediction")
     /\ ret[3].value = Get(Get(call.result, "confidence_interval"), "upper")
     /\ ~Less(ret[1].value, Num(0, 0))
     /\ ~Less(ret[2].value, ret[1].value)
     /\ ~Less(ret[3].value, ret[2].value)

\* The part of C17 that holds: results whose three values are all above zero
\* are plotted as they are.
PositiveValuesPlotted ==
  (call.fn = "Charts" /\ Returned /\ call.taskType = "regression"
     /\ Less(Num(0, 0), Get(Get(call.result, "confidence_interval"), "lower")))
  => /\ ret[1].value = Get(Get(call.result, "confidence_interval"), "lower")
     /\ ret[2].value = Get(call.result, "prediction")
     /\ ret[3].value = Get(Get(call.result, "confidence_interval"), "upper")

\* C18: every row of the predictions table has task_type classification or
\* regression, and an INSERT of a row with any other task type fails and
\* leaves the table as it was.
C18_TaskTypeKnown ==
  [][/\ \A i \in 1..Len(predictions') :
          predictions'[i].task_type \in {"classification", "regression"}
     /\ \A s \in Sessions :
          (/\ inserts[s].st = "defaults"
           /\ inserts[s].row.task_type \notin {"classification", "regression"}
           /\ inserts'[s].st = "idle"
           /\ inserts'[s].outcome # "aborted")
          => /\ predictions' = predictions
             /\ inserts'[s].outcome = "rejected"]_vars

C18_Witness ==
  /\ inserts["s1"] = Finished("rejected")
  /\ inserts["s2"] = Finished("inserted")
  /\ Len(predictions) = 1
  /\ predictions[1].task_type = "regression"
  /\ predictions_id_seq = 2

\* The schema's keys are pairwise distinct, and every entry has min <= max
\* and min <= default <= max.
WellFormed(config) ==
  /\ \A i, j \in 1..Len(config) : i # j => config[i].key # config[j].key
  /\ \A i \in 1..Len(config) :
       /\ ~Less(config[i].max, config[i].min)
       /\ ~Less(config[i].default, config[i].min)
       /\ ~Less(config[i].max, config[i].default)

\* C19: FEATURE_CONFIG is well-formed (distinct keys, min <= max, every
\* default within [min, max]), and a submit of the form as pre-filled, no
\* field edited, passes validation: no error is shown and the request is sent.
C19_SchemaWellFormed ==
  [][(SubmitStep /\ features = getDefaultFeatures(FEATURE_CONFIG))
     => /\ WellFormed(FEATURE_CONFIG)
        /\ errors' = Obj(<< >>)
        /\ Len(pending') = Len(pending) + 1
        /\ Sent.data = Obj(<<[k |-> "features", v |-> features]>>)]_vars

C19_Witness ==
  /\ submitTick = 1
  /\ features = getDefaultFeatures(FEATURE_CONFIG)
  /\ ObjectKeys(features) = SchemaKeys
  /\ errors = Obj(<< >>)
  /\ Len(pending) = 1
  /\ isLoading

\* C20: history persistence is best-effort.  A request whose inference and
\* shaping succeeded leaves Persisting only to Responded, and with the
\* successful prediction as its response, whatever the outcome of the append
\* (inserted, rejected or aborted); and once the append has ended, whatever
\* its outcome, the response can be given.
C20_PersistenceBestEffort ==
  [][\A s \in Sessions :
       requests[s].pc = "Persisting" =>
         /\ (inserts[s].st = "idle" /\ inserts[s].outcome # "none"
               => ENABLED Respond(s))
         /\ (requests'[s] # requests[s] =>
               /\ requests'[s].pc = "Responded"
               /\ requests'[s].response = Success(requests[s].result))]_vars

\* A request answered with its prediction although its append failed and
\* left no row.
C20_Witness ==
  \E s \in Sessions :
    /\ requests[s].pc = "Responded"
    /\ requests[s].response.status = 200
    /\ requests[s].logged = "PersistenceFailure"
    /\ inserts[s].outcome = "aborted"
    /\ predictions = << >>

\* The URL of the endpoint of a task type.
EndpointOf(task_type) ==
  IF task_type = "classification" THEN Str(<<"/api/predict/classification">>)
  ELSE Str(<<"/api/predict/regression">>)

\* C21: whenever Home displays a result (`result ? ...`), the result is what
\* the endpoint of the currently selected task type answers.
C21_ResultOfSelectedTask ==
  Truthy(result) => result = SuccessData(EndpointOf(taskType))

\* C22: at most one prediction request is in flight: there is never more
\* than one request that Home has not settled, Home is loading exactly while
\* there is one, and no step taken while isLoading adds a request.
C22_AtMostOneInFlight ==
  [][/\ Len(pending') <= 1
     /\ isLoading' = (Len(pending') = 1)
     /\ (isLoading => Len(pending') <= Len(pending))]_vars

\* A request in flight after the user edited a field and switched the task
\* type while it was loading.
C22_Witness ==
  /\ isLoading
  /\ Len(pending) = 1
  /\ pending[1].url # EndpointOf(taskType)
  /\ features # pending[1].data.e[1].v

\* C23: in every reachable state of Home, result and error are not both
\* non-null, and while isLoading both are null.
C23_ResultXorError ==
  /\ ~(result # Null /\ error # Null)
  /\ (isLoading => result = Null /\ error = Null)

\* A failure shown after an earlier request: the error is set, the result
\* is not, and nothing is loading.
C23_Witness ==
  /\ ~isLoading
  /\ error # Null
  /\ result = Null
  /\ pending = << >>

\* C24: every submitted prediction request settles, and then Home stops
\* loading with a result or an error set: a loading page is always followed
\* by a page that is not loading and shows one of the two.
C24_LoadingEnds ==
  isLoading ~> (~isLoading /\ (result # Null \/ error # Null))

\* A request the client's timeout settled: nothing is loading and the
\* timeout's message is the error.
C24_Witness ==
  /\ ~isLoading
  /\ pending = << >>
  /\ error = Str(<<"timeout of 30000ms exceeded">>)

\* The step in which loadHistory finishes.
HistorySettles == historyRequest # Settled /\ historyRequest' = Settled

\* C25: when the history request is answered with an empty array the page
\* ends not loading, with no error and an empty list; when it fails the page
\* ends not loading, with the error set and the list still empty; and
\* loading ends for good in every behaviour.
C25_EmptyAndFailedHistory ==
  /\ [][HistorySettles =>
          /\ ~historyLoading'
          /\ (historyRequest.outcome.ok /\ historyRequest.outcome.response.data = << >>
                => historyError' = Null /\ historyPredictions' = << >>)
          /\ (~historyRequest.outcome.ok
                => Truthy(historyError') /\ historyPredictions' = << >>)]_vars
  /\ [][historyRequest = Settled =>
          UNCHANGED <<historyLoading, historyError, historyPredictions>>]_vars
  /\ <>[](~historyLoading)

\* The page after the request over an empty table was answered: not loading,
\* no error, nothing to list.
C25_Witness ==
  /\ historyRequest = Settled
  /\ predictions = << >>
  /\ ~historyLoading
  /\ historyError = Null
  /\ historyPredictions = << >>
  /\ filteredPredictions = << >>

\* fieldState(key): 'neutral' | 'error' | 'valid'
fieldState(key) ==
  IF ~Truthy(Get(touched, key)) THEN "neutral"
  ELSE IF Truthy(Get(errors, key)) THEN "error" ELSE "valid"

\* C26: in every reachable state of the form, a field shown as valid holds a
\* value that validateFeature accepts.
C26_ValidFieldsAreValid ==
  \A key \in ConfigKeys :
    fieldState(key) = "valid" =>
      ~Truthy(validateFeature(key, Get(features, key), FEATURE_CONFIG))

IsNumberError(r) == r.t = "string" /\ Len(r.s) >= 2 /\ r.s[2] = " must be a number"

\* validateFeature was called with a key of the schema and a present,
\* non-empty value.
ValidatedPresentValue ==
  /\ Returned
  /\ call.fn = "validateFeature"
  /\ call.key \in ConfigKeys
  /\ ~IsEmptyValue(call.value)

\* C28: for every present, non-empty value, validateFeature reports a
\* must-be-a-number error exactly when isNumeric(value) is false, and every
\* value it accepts is numeric as isNumeric has it.
C28_NumericChecksAgree ==
  ValidatedPresentValue =>
    /\ IsNumberError(ret) <=> ~isNumeric(call.value)
    /\ ret = Null => isNumeric(call.value)

\* What the two checks do agree on: a value isNumeric accepts never gets a
\* must-be-a-number error.
NumericNeverNotANumber ==
  ValidatedPresentValue /\ isNumeric(call.value) => ~IsNumberError(ret)

\* The API documentation's table "Feature Descriptions": feature and range.
Documented(key, min, max) == [key |-> key, min |-> min, max |-> max]

FeatureDescriptions == <<
  Documented("koi_prad", Num(1, 1), Num(30, 0)),
  Documented("koi_depth", Num(0, 0), Num(10000, 0)),
  Documented("koi_period", Num(1, 1), Num(1000, 0)),
  Documented("koi_srad", Num(1, 1), Num(10, 0)),
  Documented("koi_steff", Num(2500, 0), Num(10000, 0)),
  Documented("koi_smass", Num(1, 1), Num(5, 0)),
  Documented("koi_slogg", Num(1, 0), Num(5, 0)),
  Documented("koi_lum", Num(-3, 0), Num(5, 0)),
  Documented("koi_impact", Num(0, 0), Num(2, 0)),
  Documented("koi_duration", Num(1, 1), Num(50, 0)),
  Documented("koi_dor", Num(1, 0), Num(200, 0)),
  Documented("koi_model_snr", Num(0, 0), Num(500, 0)),
  Documented("koi_kepmag", Num(5, 0), Num(20, 0)),
  Documented("koi_score", Num(0, 0), Num(1, 0)) >>

\* The key is documented, with the bounds the form's schema gives it.
DocumentedAsConfigured(key) ==
  \E j \in 1..Len(FeatureDescriptions) :
    /\ FeatureDescriptions[j].key = key
    /\ FeatureDescriptions[j].min = Find(FEATURE_CONFIG, key, 1).min
    /\ FeatureDescriptions[j].max = Find(FEATURE_CONFIG, key, 1).max

\* The keys of the features object of the request the step sends.
SentKeys == ObjectKeys(Get(Sent.data, "features"))

\* C27: every feature key a form submission carries is a key of the
\* documented API feature schema, with the documented [min, max] as its
\* bounds in the form.
C27_SubmittedKeysDocumented ==
  [][SubmitStep /\ Len(pending') > Len(pending) =>
       \A i \in 1..Len(SentKeys) : DocumentedAsConfigured(SentKeys[i])]_vars

\* What does hold: every documented feature is submitted, and every
\* submitted key but koi_qof is documented with the form's bounds.
AllButQualityFlagDocumented ==
  [][SubmitStep /\ Len(pending') > Len(pending) =>
       /\ \A i \in 1..Len(SentKeys) :
            SentKeys[i] # "koi_qof" => DocumentedAsConfigured(SentKeys[i])
       /\ \A j \in 1..Len(FeatureDescriptions) :
            \E i \in 1..Len(SentKeys) : SentKeys[i] = FeatureDescriptions[j].key]_vars

\* What a request targets: method, path, body and query parameters.
Target(request) ==
  [method |-> request.method, path |-> PathOf(request.url),
   data |-> request.data, params |-> request.params]

\* C29: with VITE_API_URL set to the backend origin followed by /api, every
\* call of either client targets the same path under /api, with the same
\* method, body and query parameters, as the same call of the other client.
C29_ClientsEquivalent ==
  Returned /\ call.fn \in {"predictClassification", "predictRegression",
                           "getPredictionHistory", "getModelInfo", "checkHealth"} =>
    /\ Target(ret) = Target(RelativeClient(call.fn, call.args))
    /\ Target(ret) = Target(EnvClient(call.fn, call.args))
    /\ SubSeq(Target(ret).path, 1, 3) = <<"/", "api", "/">>

\* The history call of the VITE_API_URL client with its default parameters:
\* sent to the backend origin, under /api.
C29_Witness ==
  /\ Returned
  /\ call.client = "env"
  /\ call.fn = "getPredictionHistory"
  /\ call.args.limit = Undefined
  /\ ret.url = VITE_API_URL \o <<"/", "predictions", "/", "history">>
  /\ Get(ret.params, "limit") = Num(50, 0)

====
